---- MODULE Spec2Model ----
(***************************************************************************)
(* Model of the bootstrap orchestration engine of image-bootstrap:         *)
(* BootstrapEngine (src/image_bootstrap/engine.py), with the retry loops   *)
(* of the helpers it calls taken from their in-tree copies in              *)
(* BootstrapDistroAgnostic (src/image_bootstrap/distro.py).                *)
(*                                                                         *)
(* run() is modelled statement by statement: pc names the statement that   *)
(* is executed next, exc is the exception in flight (Python 2 semantics:   *)
(* an exception raised inside a finally block replaces the one in flight). *)
(* Paths are sequences of path components, "/mnt/x/dev" is                 *)
(* <<"mnt", "x", "dev">>.                                                  *)
(***************************************************************************)
EXTENDS Integers, Sequences, FiniteSets, TLC

\* ---------------------------------------------------------------- constants

None == "None"

\* None in a field that holds a path once it is set (_abs_mountpoint,
\* _abs_first_partition_device, engine.py:92-96): no path, and unlike
\* every path
NoPath == << None >>

\* engine.py:33-38
BOOTLOADER__AUTO == "auto"
BOOTLOADER__CHROOT_GRUB2__DEVICE == "chroot-grub2-device"
BOOTLOADER__CHROOT_GRUB2__DRIVE == "chroot-grub2-drive"
BOOTLOADER__HOST_GRUB2__DEVICE == "host-grub2-device"
BOOTLOADER__HOST_GRUB2__DRIVE == "host-grub2-drive"
BOOTLOADER__NONE == "none"

BootloaderApproaches ==
    { BOOTLOADER__AUTO,
      BOOTLOADER__CHROOT_GRUB2__DEVICE, BOOTLOADER__CHROOT_GRUB2__DRIVE,
      BOOTLOADER__HOST_GRUB2__DEVICE, BOOTLOADER__HOST_GRUB2__DRIVE,
      BOOTLOADER__NONE }

ConcreteApproaches == BootloaderApproaches \ { BOOTLOADER__AUTO }

\* engine.py:40
MOUNTPOINT_PARENT_DIR == <<"mnt">>

\* engine.py:41
CHROOT_SCRIPT_TARGET_DIR == <<"root", "chroot-scripts">>

\* engine.py:43-48: (source, target) of the four non-disk mounts, in order
NON_DISK_MOUNT_TASKS ==
    << [source |-> "/dev",     target |-> <<"dev">>],
       [source |-> "/dev/pts", target |-> <<"dev", "pts">>],
       [source |-> "PROC",     target |-> <<"proc">>],
       [source |-> "/sys",     target |-> <<"sys">>] >>

\* distro.py:45
EXIT_COMMAND_NOT_FOUND == 127

\* distro.py:518: for i in range(3)
UnmountTries == 3

\* engine.py:50-51
DISK_ID_OFFSET == 440

DISK_ID_COUNT_BYTES == 4

\* the directory tempfile.mkdtemp(dir='/mnt') creates (engine.py:319)
TmpMountpoint == MOUNTPOINT_PARENT_DIR \o <<"tmp">>

\* the directory root/chroot-scripts below the mountpoint: whether it
\* exists, and the files in it; at first it does not exist
NoChrootScripts == [exists |-> FALSE, files |-> {}]

\* a root password given to the constructor (engine.py:78)
GivenRootPassword == "secret"

\* etc/hostname and etc/resolv.conf below the mountpoint: who wrote each
\* last; the file system format_partitions makes has neither
NoEtcFiles == [hostname |-> "absent", resolv_conf |-> "absent"]

\* a mount of the host that has nothing to do with the run
UnrelatedMount == MOUNTPOINT_PARENT_DIR \o <<"y">>

\* ------------------------------------------------------------------- bounds

\* how many failures of external commands, hooks and system calls one
\* behaviour may contain
MaxFaults == 2

\* longest mount table the mount tables of SpecMounts are drawn from
MaxTable == 4

\* the longest byte sequence a disk identifier is taken from
MaxIdLen == 5

\* the most entries a scripts directory holds
MaxDirSize == 4

\* the most variables a process environment has
MaxEnvVars == 4

\* ------------------------------------------------------------------ helpers

Reverse(s) == [i \in 1..Len(s) |-> s[Len(s) + 1 - i]]

Range(s) == { s[i] : i \in 1..Len(s) }

\* os.path.join(abs_mountpoint, target)
Join(a, b) == a \o b

\* p is the path root or lies below it
IsPrefix(root, p) == Len(p) >= Len(root) /\ SubSeq(p, 1, Len(root)) = root

IsStrictlyBelow(root, p) == IsPrefix(root, p) /\ Len(p) > Len(root)

\* the table without its last entry for path p (umount takes the top-most
\* mount of a mount point off)
RemoveLast(m, p) ==
    IF p \notin Range(m) THEN m
    ELSE LET k == CHOOSE i \in 1..Len(m) :
                      m[i] = p /\ \A j \in (i + 1)..Len(m) : m[j] # p
         IN  SubSeq(m, 1, k - 1) \o SubSeq(m, k + 1, Len(m))

\* a file: whether it is a block device, its size, and its bytes, which are
\* fill except at the offsets of patch (offsets count from 0)
File(block, size, fill, patch) ==
    [block |-> block, size |-> size, fill |-> fill, patch |-> patch]

ByteAt(file, offset) ==
    IF offset \in DOMAIN file.patch THEN file.patch[offset] ELSE file.fill

\* f.read(count) after f.seek(offset)
ReadAt(file, offset, count) ==
    LET there == IF offset + count <= file.size THEN count
                 ELSE IF offset >= file.size THEN 0
                 ELSE file.size - offset
    IN  [k \in 1..there |-> ByteAt(file, offset + k - 1)]

\* open(path, 'w'): a regular file is truncated to no bytes, a block device
\* keeps its content
Opened(file) ==
    IF file.block THEN file ELSE File(FALSE, 0, 0, <<>>)

\* f.seek(offset); f.write(content): the bytes of content replace the ones
\* at offset.., and a regular file grows, with zero bytes in the gap
WriteAt(file, offset, content) ==
    LET end == offset + Len(content)
        written == [i \in offset..(end - 1) |-> content[i - offset + 1]]
        kept == [i \in (DOMAIN file.patch) \ DOMAIN written |-> file.patch[i]]
        gap == IF file.fill = 0 THEN <<>>
               ELSE [i \in (file.size..(offset - 1)) \ DOMAIN file.patch |-> 0]
    IN  File(file.block, IF end > file.size THEN end ELSE file.size, file.fill,
             written @@ kept @@ gap)

\* self._disk_id: None, or an object whose byte_sequence() gives content
NoDiskId == [given |-> FALSE, byte_sequence |-> <<>>]

DiskId(content) == [given |-> TRUE, byte_sequence |-> content]

\* a scratch file of 1 MiB
ScratchFile == File(FALSE, 2^20, 170, <<>>)

\* a block device of 1 MiB
BlockDevice == File(TRUE, 2^20, 170, <<>>)

\* one entry of the record of operations: the operation, the path it is
\* about (<<>> if none) and how it ended
E(op, arg, res) == [op |-> op, arg |-> arg, res |-> res]

\* ------------------------------------------------------ external commands

\* exit statuses of an external command: success, "command not found", and
\* one representative of every other failure
ExitCodes == { 0, 1, EXIT_COMMAND_NOT_FOUND }

\* the exit statuses of the successive attempts of one retried command; the
\* loop reads as many of them as it makes attempts
AllOk == [i \in 1..UnmountTries |-> 0]

UmountScenarios ==
    { AllOk,
      [i \in 1..UnmountTries |-> IF i < UnmountTries THEN 1 ELSE 0],
      [i \in 1..UnmountTries |-> 1],
      [i \in 1..UnmountTries |-> IF i = 1 THEN EXIT_COMMAND_NOT_FOUND ELSE 0] }

\* a loop that gives up at the first failure
TryLoopWithoutRetry(codes, i) ==
    IF codes[i] = 0
    THEN [raised |-> FALSE, done |-> TRUE, attempts |-> i]
    ELSE [raised |-> TRUE, done |-> FALSE, attempts |-> i]

\* a loop that tries again after every failure
RECURSIVE TryLoopRetryingAll(_, _)
TryLoopRetryingAll(codes, i) ==
    IF i > UnmountTries
    THEN [raised |-> FALSE, done |-> FALSE, attempts |-> UnmountTries]
    ELSE IF codes[i] = 0
    THEN [raised |-> FALSE, done |-> TRUE, attempts |-> i]
    ELSE TryLoopRetryingAll(codes, i + 1)

\* distro.py:513-526, the loop of _try_unmounting from attempt i on:
\*   for i in range(3):
\*       try:    check_call(cmd)
\*       except CalledProcessError as e:
\*           if e.returncode == 127: raise
\*           time.sleep(1)
\*       else:   break
\* raised: the call raises; done: the command succeeded; attempts: how often
\* the command was run.  After three failures the loop just ends.
RECURSIVE TryLoop(_, _)
TryLoop(codes, i) ==
    IF i > UnmountTries
    THEN [raised |-> FALSE, done |-> FALSE, attempts |-> UnmountTries]
    ELSE IF codes[i] = 0
    THEN [raised |-> FALSE, done |-> TRUE, attempts |-> i]
    ELSE IF codes[i] = EXIT_COMMAND_NOT_FOUND
    THEN [raised |-> TRUE, done |-> FALSE, attempts |-> i]
    ELSE TryLoop(codes, i + 1)

try_unmounting(codes) == TryLoop(codes, 1)

\* how a try_unmounting call ended, as recorded
UmountResult(r) == IF r.raised THEN "fail" ELSE IF r.done THEN "ok" ELSE "left"

\* unmounting the paths of targets in turn, from index i on, each with the
\* exit statuses scen[i]; a raising call ends the loop over the targets.
\* tried: how many targets try_unmounting was called for.
RECURSIVE UnmountEach(_, _, _, _)
UnmountEach(targets, scen, m, i) ==
    IF i > Len(targets)
    THEN [mounts |-> m, raised |-> FALSE, tried |-> Len(targets)]
    ELSE LET r == try_unmounting(scen[i])
         IN  IF r.raised
             THEN [mounts |-> m, raised |-> TRUE, tried |-> i]
             ELSE CHOOSE result \in
                      { UnmountEach(targets, scen, rest, i + 1) :
                          rest \in { IF r.done THEN RemoveLast(m, targets[i])
                                     ELSE m } } : TRUE

\* the record of the try_unmounting calls of UnmountEach
UmountEntries(targets, scen, tried) ==
    [j \in 1..tried |->
        E("umount", targets[j], UmountResult(try_unmounting(scen[j])))]

\* the scenarios a loop over n targets can meet with k failures to spend: a
\* call that does not succeed at its first attempt takes one of them, and
\* the calls that are never made get no scenario of their own
ScenariosFor(targets, k) ==
    { scen \in [1..Len(targets) -> UmountScenarios] :
        LET tried == UnmountEach(targets, scen, <<>>, 1).tried
        IN  /\ Cardinality({ j \in 1..tried : scen[j] # AllOk }) <= k
            /\ \A j \in (tried + 1)..Len(targets) : scen[j] = AllOk }

FaultsOf(scen) == Cardinality({ j \in 1..Len(scen) : scen[j] # AllOk })

\* ------------------------------------------------------------------ UUIDs

\* strings are sequences of characters; LF is the newline character
LF == "LF"

HexDigits ==
    { "0", "1", "2", "3", "4", "5", "6", "7", "8", "9",
      "a", "b", "c", "d", "e", "f" }

\* "f47ac10b-58cc-4372-a567-0e02b2c3d479"
CanonicalUuid ==
    << "f", "4", "7", "a", "c", "1", "0", "b", "-", "5", "8", "c", "c", "-",
       "4", "3", "7", "2", "-", "a", "5", "6", "7", "-", "0", "e", "0", "2",
       "b", "2", "c", "3", "d", "4", "7", "9" >>

\* the unset or empty value, which run() takes for "no UUID given"
\* (engine.py:740 tests the truth of the field)
NoUuid == <<>>

\* str.rstrip(): the string without its trailing whitespace
RECURSIVE rstrip(_)
rstrip(output) ==
    IF output # <<>> /\ output[Len(output)] \in { LF, " " }
    THEN rstrip(SubSeq(output, 1, Len(output) - 1))
    ELSE output

\* a pattern that takes any first and last character
SANE_UUID_CHECKER_loose(uuid) ==
    LET chars == IF uuid # <<>> /\ uuid[Len(uuid)] = LF
                 THEN SubSeq(uuid, 1, Len(uuid) - 1) ELSE uuid
    IN  /\ Len(chars) = 36
        /\ \A i \in 1..36 : chars[i] \in HexDigits \cup { "-" }

\* a check that is never made
SANE_UUID_CHECKER_none(uuid) == TRUE

\* distro.py:28, re.compile('^[a-f0-9][a-f0-9-]{34}[a-f0-9]$').match(uuid):
\* a lowercase hex digit, 34 characters that are lowercase hex digits or
\* dashes, a lowercase hex digit, and then the end of the string, which $
\* also finds before a newline that ends the string
SANE_UUID_CHECKER(uuid) ==
    LET chars == IF uuid # <<>> /\ uuid[Len(uuid)] = LF
                 THEN SubSeq(uuid, 1, Len(uuid) - 1) ELSE uuid
    IN  /\ Len(chars) = 36
        /\ chars[1] \in HexDigits
        /\ \A i \in 2..35 : chars[i] \in HexDigits \cup { "-" }
        /\ chars[36] \in HexDigits

\* what blkid may print for the first partition: its UUID and a newline,
\* the same in upper case, a UUID of FAT kind, and nothing
BlkidOutputs ==
    { CanonicalUuid \o << LF >>,
      [i \in 1..37 |-> IF i = 37 THEN LF
                        ELSE IF CanonicalUuid[i] = "f" THEN "F"
                        ELSE CanonicalUuid[i]],
      << "4", "7", "a", "c", "-", "1", "0", "b", "5", LF >>,
      << >> }

\* ------------------------------------------------------ mount-below finder

\* MountFinder.below(abs_path) of image_bootstrap/mount.py: the mount points
\* of the table nested under abs_path, shallowest first.
RECURSIVE ByDepth(_, _, _)
ByDepth(m, d, maxd) ==
    IF d > maxd THEN <<>>
    ELSE SelectSeq(m, LAMBDA p : Len(p) = d) \o ByDepth(m, d + 1, maxd)

MaxDepth(m) ==
    IF m = <<>> THEN 0
    ELSE CHOOSE d \in { Len(m[i]) : i \in 1..Len(m) } :
             \A i \in 1..Len(m) : Len(m[i]) <= d

below(m, abs_path) ==
    LET nested == SelectSeq(m, LAMBDA p : IsStrictlyBelow(abs_path, p))
    IN  ByDepth(nested, Len(abs_path) + 1, MaxDepth(nested))

\* a release that unmounts in the finder's order
LeftoverUnmountOrderForward(m, abs_mountpoint) == below(m, abs_mountpoint)

\* a release that asks the finder for the mounts below the parent directory
LeftoverUnmountOrderOfParent(m, abs_mountpoint) ==
    Reverse(below(m, MOUNTPOINT_PARENT_DIR))

\* engine.py:346: reversed(list(mounts.below(self._abs_mountpoint)))
LeftoverUnmountOrder(m, abs_mountpoint) == Reverse(below(m, abs_mountpoint))

\* engine.py:608: reversed(_NON_DISK_MOUNT_TASKS), as paths below the mountpoint
NonDiskMountOrder(abs_mountpoint) ==
    [i \in 1..Len(NON_DISK_MOUNT_TASKS) |->
        Join(abs_mountpoint, NON_DISK_MOUNT_TASKS[i].target)]

\* a release that unmounts in the order of mounting
NonDiskUnmountOrderForward(abs_mountpoint) == NonDiskMountOrder(abs_mountpoint)

NonDiskUnmountOrder(abs_mountpoint) == Reverse(NonDiskMountOrder(abs_mountpoint))

\* ------------------------------------------------------- scripts directories

\* the characters of the file names, in the order of their codes
CharOrder == << ".", "B", "a", "b", "c", "d", "e", "h", "i", "n", "s", "~" >>

CharCode(c) == CHOOSE i \in 1..Len(CharOrder) : CharOrder[i] = c

\* a < b for Python 2 strings: at the first place where they differ a has
\* the smaller character, or a is a proper prefix of b
RECURSIVE StrLess(_, _)
StrLess(a, b) ==
    IF b = <<>> THEN FALSE
    ELSE IF a = <<>> THEN TRUE
    ELSE IF a[1] # b[1] THEN CharCode(a[1]) < CharCode(b[1])
    ELSE StrLess(Tail(a), Tail(b))

\* sorted(names)
RECURSIVE sorted(_)
sorted(names) ==
    IF names = {} THEN <<>>
    ELSE LET least == CHOOSE x \in names : \A y \in names \ { x } : StrLess(x, y)
         IN  << least >> \o sorted(names \ { least })

\* a runner that leaves out the hidden files only
script_should_be_run_unless_hidden(basename) == basename[1] # "."

\* engine.py:184-189
script_should_be_run(basename) ==
    IF basename[1] = "." THEN FALSE
    ELSE IF basename[Len(basename)] = "~" THEN FALSE
    ELSE TRUE

\* engine.py:418-421: the names the loop gets to execute, in its order
ScriptsToRun(listing) == SelectSeq(sorted(listing), script_should_be_run)

\* a loop that goes on to the scripts left after one has failed
ScriptsRunDespiteFailure(scripts, k) == scripts

\* engine.py:418-423: check_call raises when the k-th script returns
\* non-zero, which ends the loop: the scripts executed are the first k
ScriptsRunUntilFailure(scripts, k) == SubSeq(scripts, 1, k)

\* what os.listdir gives for the pre-chroot and the post-chroot scripts
\* directory: a.sh, .hidden, b.sh~ and c.sh
ScriptsDirListing ==
    { << "a", ".", "s", "h" >>,
      << ".", "h", "i", "d", "d", "e", "n" >>,
      << "b", ".", "s", "h", "~" >>,
      << "c", ".", "s", "h" >> }

\* -------------------------------------------------------------------- state

VARIABLES
    \* BootstrapEngine fields (engine.py:74-96)
    distro,                       \* _distro: None or the strategy object
    bootloader_approach,          \* _bootloader_approach
    command_grub2_install,        \* _command_grub2_install: None or a command
    with_openstack,               \* _with_openstack
    root_password,                \* _root_password
    disk_id,                      \* _disk_id: none, or what byte_sequence() gives
    abs_scripts_dir_chroot,       \* _abs_scripts_dir_chroot: None or a directory
    first_partition_uuid,         \* _first_partition_uuid: unset, or a string
    abs_mountpoint,               \* _abs_mountpoint: NoPath or a path
    abs_first_partition_device,   \* _abs_first_partition_device: NoPath or a path
    \* the system the engine acts on
    mounts,                       \* the mount table, in the order of mounting
    mapper_active,                \* the partition-mapper devices of the target exist
    mountpoint_exists,            \* the directory mkdtemp made exists
    device_map_exists,            \* boot/grub/device.map exists below the mountpoint
    chroot_scripts,               \* root/chroot-scripts below the mountpoint
    etc_files,                    \* who wrote etc/hostname and etc/resolv.conf last
    target,                       \* the content of the file at _abs_target_path
    \* control
    pc,                           \* the statement of run() executed next
    exc,                          \* the statement whose exception is in flight
    origin,                       \* the statement that raised first in this run
    log,                          \* the operations invoked so far, in order
    faults                        \* failures the environment may still inject

fields == << distro, bootloader_approach, command_grub2_install, with_openstack,
             root_password,
             disk_id,
             abs_scripts_dir_chroot, first_partition_uuid, abs_mountpoint,
             abs_first_partition_device >>

system == << mounts, mapper_active, mountpoint_exists, device_map_exists,
            chroot_scripts, etc_files, target >>

control == << pc, exc, origin, log, faults >>

vars == << fields, system, control >>

\* -------------------------------------------------- the structure of run()

\* engine.py:732-804: the statements of run in textual order; on normal
\* completion control goes from each to the next
RunOrder ==
    << "unshare", "partition_device", "set_disk_id_in_mbr",
       "create_partition_devices",
       "format_partitions", "first_partition_uuid", "mkdir_mountpount",
       "mount_disk_chroot_mounts",
       "mkdir_mountpount_etc", "create_etc_hostname_1", "create_etc_resolv_conf_1",
       "run_directory_bootstrap",
       "unmount_directory_bootstrap_leftovers",
       "create_etc_hostname_2", "create_etc_resolv_conf_2", "create_etc_fstab",
       "create_network_configuration", "run_pre_scripts",
       "install_bootloader__grub2_host",
       "mount_nondisk_chroot_mounts",
       "set_root_password_inside_chroot",
       "ensure_chroot_has_grub2_installed", "install_bootloader__grub2_chroot",
       "generate_grub_cfg_from_inside_chroot", "fix_grub_cfg_root_device",
       "adjust_initramfs_generator_config", "generate_initramfs_from_inside_chroot",
       "install_sudo", "create_sudo_nopasswd_user", "install_cloud_init_and_friends",
       "configure_cloud_init_and_friends", "install_sshd",
       "make_openstack_services_autostart",
       "copy_chroot_scripts",
       "run_chroot_scripts",
       "remove_chroot_scripts",
       "unmount_nondisk_chroot_mounts",
       "perform_post_chroot_clean_up", "run_post_scripts",
       "unmount_disk_chroot_mounts",
       "rmdir_mountpount",
       "remove_partition_devices",
       "done" >>

Steps == Range(RunOrder)

IndexOf(step) == CHOOSE i \in 1..Len(RunOrder) : RunOrder[i] = step

NextInOrder(step) == RunOrder[IndexOf(step) + 1]

\* a run that deactivates the mapper devices before it removes the mountpoint
AfterWithMapperFirst(step) ==
    CASE step = "unmount_disk_chroot_mounts" -> "remove_partition_devices"
      [] step = "remove_partition_devices" -> "rmdir_mountpount"
      [] step = "rmdir_mountpount" -> "done"
      [] OTHER -> NextInOrder(step)

\* a run that makes the mountpoint before it resolves the UUID
AfterWithMountpointBeforeUuid(step) ==
    CASE step = "format_partitions" -> "mkdir_mountpount"
      [] step = "mkdir_mountpount" -> "first_partition_uuid"
      [] step = "first_partition_uuid" -> "mount_disk_chroot_mounts"
      [] OTHER -> NextInOrder(step)

\* a run that goes back to the post-chroot hook after the post-chroot scripts
AfterRepeatingPostChroot(step) ==
    IF step = "run_post_scripts" THEN "perform_post_chroot_clean_up"
    ELSE NextInOrder(step)

After(step) == NextInOrder(step)

\* the finally blocks of run (engine.py:756, 794, 796, 800, 802, 804)
Releases ==
    { "unmount_directory_bootstrap_leftovers", "remove_chroot_scripts",
      "unmount_nondisk_chroot_mounts", "unmount_disk_chroot_mounts",
      "rmdir_mountpount", "remove_partition_devices" }

\* engine.py:737-804, the nesting of the try statements: where control goes
\* when the statement raises, or, for a finally block, when it is left with
\* an exception in flight: the finally block of the innermost try statement
\* around it, or out of run.
FinallyOf(step) ==
    CASE step \in { "unshare", "partition_device", "set_disk_id_in_mbr",
                    "create_partition_devices", "remove_partition_devices" }
            -> "done"
      [] step \in { "format_partitions", "first_partition_uuid",
                    "mkdir_mountpount", "rmdir_mountpount" }
            -> "remove_partition_devices"
      [] step \in { "mount_disk_chroot_mounts", "unmount_disk_chroot_mounts" }
            -> "rmdir_mountpount"
      [] step = "run_directory_bootstrap"
            -> "unmount_directory_bootstrap_leftovers"
      [] step = "run_chroot_scripts"
            -> "remove_chroot_scripts"
      [] step \in { "set_root_password_inside_chroot",
                    "ensure_chroot_has_grub2_installed",
                    "install_bootloader__grub2_chroot",
                    "generate_grub_cfg_from_inside_chroot",
                    "fix_grub_cfg_root_device",
                    "adjust_initramfs_generator_config",
                    "generate_initramfs_from_inside_chroot",
                    "install_sudo", "create_sudo_nopasswd_user",
                    "install_cloud_init_and_friends",
                    "configure_cloud_init_and_friends", "install_sshd",
                    "make_openstack_services_autostart",
                    "copy_chroot_scripts", "remove_chroot_scripts" }
            -> "unmount_nondisk_chroot_mounts"
      [] OTHER
            -> "unmount_disk_chroot_mounts"

\* a run whose try statement around the partition mount has no finally block
\* removing the mountpoint
HandlerWithoutMountpointRemoval(step) ==
    IF step \in { "mount_disk_chroot_mounts", "unmount_disk_chroot_mounts" }
    THEN "remove_partition_devices"
    ELSE FinallyOf(step)

\* a run that unmounts the bootstrap leftovers only if the bootstrap returns
HandlerWithoutLeftoverRelease(step) ==
    IF step = "run_directory_bootstrap" THEN "unmount_disk_chroot_mounts"
    ELSE FinallyOf(step)

\* a run whose teardown ends at the first release that raises
HandlerLeavingRunAtFailedRelease(step) ==
    IF step \in Releases THEN "done" ELSE FinallyOf(step)

Handler(step) == FinallyOf(step)

\* engine.py:762
InstallsFromHost(approach) ==
    approach \in { BOOTLOADER__HOST_GRUB2__DEVICE, BOOTLOADER__HOST_GRUB2__DRIVE }

\* a run that takes every approach with GRUB for a chroot variant as well
InstallsFromChrootOrHost(approach) ==
    approach \in { BOOTLOADER__CHROOT_GRUB2__DEVICE, BOOTLOADER__CHROOT_GRUB2__DRIVE,
                   BOOTLOADER__HOST_GRUB2__DEVICE, BOOTLOADER__HOST_GRUB2__DRIVE }

\* engine.py:768
InstallsFromChroot(approach) ==
    approach \in { BOOTLOADER__CHROOT_GRUB2__DEVICE, BOOTLOADER__CHROOT_GRUB2__DRIVE }

\* a run that takes every approach it does not know for one with GRUB
GeneratesGrubCfgUnlessAuto(approach) == approach # BOOTLOADER__AUTO

\* engine.py:772
GeneratesGrubCfg(approach) == approach # BOOTLOADER__NONE

\* ------------------------------------------------------------ control steps

\* the statement ends normally: on to the next statement, or, at the end of
\* a finally block entered with an exception, on with that exception
Completes(step) ==
    /\ pc' = IF exc # None THEN Handler(step) ELSE After(step)
    /\ UNCHANGED << exc, origin >>

\* the statement raises: its exception is the one in flight from now on
Raises(step) ==
    /\ pc' = Handler(step)
    /\ exc' = step
    /\ origin' = IF origin = None THEN step ELSE origin

\* a statement run() skips because its condition is false
Skips(next) ==
    /\ pc' = next
    /\ UNCHANGED << exc, origin, log, faults >>

\* a statement with no effect on the modelled state: it succeeds, or fails
\* with one of the failures left
PlainAs(step, op) ==
    /\ pc = step
    /\ \/ /\ Completes(step)
          /\ log' = Append(log, E(op, <<>>, "ok"))
          /\ UNCHANGED faults
       \/ /\ faults > 0
          /\ Raises(step)
          /\ log' = Append(log, E(op, <<>>, "fail"))
          /\ faults' = faults - 1
    /\ UNCHANGED << fields, system >>

Plain(step) == PlainAs(step, step)

\* a statement with no effect on the modelled state that is given text:
\* the record keeps the text
PlainWith(step, text) ==
    /\ pc = step
    /\ \/ /\ Completes(step)
          /\ log' = Append(log, E(step, text, "ok"))
          /\ UNCHANGED faults
       \/ /\ faults > 0
          /\ Raises(step)
          /\ log' = Append(log, E(step, text, "fail"))
          /\ faults' = faults - 1
    /\ UNCHANGED << fields, system >>

\* a statement that calls a method of the distro strategy: without a distro
\* (self._distro is None) the call raises AttributeError
Hook(step) ==
    /\ pc = step
    /\ \/ /\ distro # None
          /\ Completes(step)
          /\ log' = Append(log, E(step, <<>>, "ok"))
          /\ UNCHANGED faults
       \/ /\ distro = None \/ faults > 0
          /\ Raises(step)
          /\ log' = Append(log, E(step, <<>>, "fail"))
          /\ faults' = IF distro = None THEN faults ELSE faults - 1
    /\ UNCHANGED << fields, system >>

\* ------------------------------------------------------------ construction

\* what the distro's bootstrap may leave mounted below the mountpoint, as
\* paths relative to it, in the order of mounting
BootstrapLeftovers ==
    { <<>>,
      << <<"dev">>, <<"dev", "pts">> >> }

\* engine.py:55-96, BootstrapEngine.__init__
Init ==
    /\ distro = None
    /\ bootloader_approach \in BootloaderApproaches
    /\ command_grub2_install \in { "/opt/grub/sbin/grub-install" }
    /\ with_openstack \in BOOLEAN
    /\ root_password = GivenRootPassword
    /\ disk_id = NoDiskId
    /\ abs_scripts_dir_chroot \in { None, "/scripts/chroot" }
    /\ first_partition_uuid \in { NoUuid, CanonicalUuid }
    /\ abs_mountpoint = NoPath
    /\ abs_first_partition_device = NoPath
    /\ mounts = << <<>>, UnrelatedMount >>
    /\ mapper_active = FALSE
    /\ mountpoint_exists = FALSE
    /\ device_map_exists = FALSE
    /\ chroot_scripts = NoChrootScripts
    /\ etc_files = NoEtcFiles
    /\ target \in { ScratchFile }
    /\ pc = "idle"
    /\ exc = None
    /\ origin = None
    /\ log = <<>>
    /\ faults = MaxFaults

\* ------------------------------------------------- calls made before run()

\* engine.py:98-99
set_distro ==
    /\ pc = "idle"
    /\ distro' = "distro"
    /\ UNCHANGED << bootloader_approach, command_grub2_install, with_openstack, root_password, disk_id,
                    abs_scripts_dir_chroot, first_partition_uuid, abs_mountpoint,
                    abs_first_partition_device, system, control >>

\* a select_bootloader that asks the distro whatever the approach is
SelectedApproachUnguarded(current, from_distro) == from_distro

\* engine.py:105-106: the approach after select_bootloader, from_distro being
\* what self._distro.select_bootloader() returns
SelectedApproach(current, from_distro) ==
    IF current = BOOTLOADER__AUTO THEN from_distro ELSE current

\* engine.py:104-108; without a distro the call raises and changes nothing.
\* With recorded, the call is made once and put on the record with the
\* approach it leaves.
select_bootloader_once(recorded) ==
    /\ pc = "idle"
    /\ recorded => \A i \in 1..Len(log) : log[i].op # "select_bootloader"
    /\ \/ /\ distro # None
          /\ \E from_distro \in BootloaderApproaches :
                bootloader_approach' =
                    SelectedApproach(bootloader_approach, from_distro)
       \/ /\ distro = None
          /\ UNCHANGED bootloader_approach
    /\ log' = IF recorded
              THEN Append(log, E("select_bootloader", << bootloader_approach' >>, "ok"))
              ELSE log
    /\ UNCHANGED << distro, command_grub2_install, with_openstack, root_password, disk_id,
                    abs_scripts_dir_chroot, first_partition_uuid, abs_mountpoint,
                    abs_first_partition_device, system, pc, exc, origin, faults >>

select_bootloader == select_bootloader_once(FALSE)

\* engine.py:138, `if self._command_grub2_install`: a command is given unless
\* it is None or the empty string
GivenCommand(command) == command \notin { None, "" }

\* a detection that finds nothing out and leaves the command as it is
DetectedCommandLeftAsItIs(current, approach, found) == current

\* a detection that searches whether or not a command is given
DetectedCommandOverridingGiven(current, approach, found) ==
    IF ~InstallsFromHost(approach) THEN current
    ELSE IF "grub2-install" \in found THEN "grub2-install"
    ELSE "grub-install"

\* engine.py:137-168: the command selected when the search finds the commands
\* of the set found ("grub2-install", "grub-install")
DetectedCommand(current, approach, found) ==
    IF GivenCommand(current) THEN current
    ELSE IF ~InstallsFromHost(approach) THEN current
    ELSE IF "grub2-install" \in found THEN "grub2-install"
    ELSE "grub-install"

\* engine.py:130-135, 168: the ValueError of _protect_against_grub_legacy,
\* called for grub-install when the search found it and not grub2-install;
\* legacy tells that its version output has 'GRUB GRUB 0.'
DetectionRaises(current, approach, found, legacy) ==
    /\ ~GivenCommand(current)
    /\ InstallsFromHost(approach)
    /\ "grub2-install" \notin found
    /\ "grub-install" \in found
    /\ legacy

\* distro.py:114-139: the detection of the distro-agnostic bootstrapper, which
\* knows no approach and installs from the host (distro.py:422-425)
DistroDetectedCommand(current, found) ==
    IF GivenCommand(current) THEN current
    ELSE IF "grub2-install" \in found THEN "grub2-install"
    ELSE "grub-install"

\* distro.py:107-112, 139
DistroDetectionRaises(current, found, legacy) ==
    /\ ~GivenCommand(current)
    /\ "grub2-install" \notin found
    /\ "grub-install" \in found
    /\ legacy

\* engine.py:137-168; a ValueError leaves the engine to its caller.  With
\* recorded, the call is made once and put on the record with the command
\* and the approach it found, what the search found, and the command it
\* leaves.
detect_grub2_install_once(recorded) ==
    /\ pc = "idle"
    /\ recorded => \A i \in 1..Len(log) : log[i].op # "detect_grub2_install"
    /\ \E found \in SUBSET { "grub2-install", "grub-install" }, legacy \in BOOLEAN :
          LET raises == DetectionRaises(command_grub2_install,
                                        bootloader_approach, found, legacy)
          IN  /\ command_grub2_install' =
                    DetectedCommand(command_grub2_install, bootloader_approach, found)
              /\ pc' = IF raises THEN "done" ELSE pc
              /\ exc' = IF raises THEN "ValueError" ELSE exc
              /\ origin' = IF raises THEN "detect_grub2_install" ELSE origin
              /\ log' = IF recorded
                        THEN Append(log,
                                    E("detect_grub2_install",
                                      [ before |-> command_grub2_install,
                                        approach |-> bootloader_approach,
                                        found |-> found,
                                        legacy |-> legacy,
                                        after |-> command_grub2_install' ],
                                      IF raises THEN "ValueError" ELSE "ok"))
                        ELSE log
    /\ UNCHANGED << distro, bootloader_approach, with_openstack, root_password, disk_id,
                    abs_scripts_dir_chroot, first_partition_uuid, abs_mountpoint,
                    abs_first_partition_device, system, faults >>

detect_grub2_install == detect_grub2_install_once(FALSE)

\* ------------------------------------------------------------------- run()

\* engine.py:733, the first statement of run; engine.py:242-244
unshare ==
    /\ pc = "idle"
    /\ \/ /\ pc' = After("unshare")
          /\ log' = Append(log, E("unshare", <<>>, "ok"))
          /\ UNCHANGED << exc, origin, faults >>
       \/ /\ faults > 0
          /\ Raises("unshare")
          /\ log' = Append(log, E("unshare", <<>>, "fail"))
          /\ faults' = faults - 1
    /\ UNCHANGED << fields, system >>

\* engine.py:734; engine.py:246-279
partition_device == Plain("partition_device")

\* a step that takes a byte sequence of any length
AcceptsAnyLength(content) == TRUE

\* engine.py:651: assert len(content) == _DISK_ID_COUNT_BYTES
HasDiskIdLength(content) == Len(content) = DISK_ID_COUNT_BYTES

\* a write at the start of the file, the seek left out
WrittenAtStart(file, content) == WriteAt(Opened(file), 0, content)

\* engine.py:654-657: open(path, 'w'), seek(_DISK_ID_OFFSET), write, close
WithDiskId(file, content) == WriteAt(Opened(file), DISK_ID_OFFSET, content)

\* engine.py:735; engine.py:646-657: nothing is done without a disk
\* identifier; one of another length than 4 fails the assertion before the
\* target is opened; opening can fail, and writing can fail after opening
set_disk_id_in_mbr ==
    /\ pc = "set_disk_id_in_mbr"
    /\ \/ /\ ~disk_id.given
          /\ Completes("set_disk_id_in_mbr")
          /\ log' = Append(log, E("set_disk_id_in_mbr", <<>>, "ok"))
          /\ UNCHANGED << target, faults >>
       \/ /\ disk_id.given
          /\ ~HasDiskIdLength(disk_id.byte_sequence)
          /\ Raises("set_disk_id_in_mbr")
          /\ log' = Append(log, E("set_disk_id_in_mbr", <<>>, "AssertionError"))
          /\ UNCHANGED << target, faults >>
       \/ /\ disk_id.given
          /\ HasDiskIdLength(disk_id.byte_sequence)
          /\ Completes("set_disk_id_in_mbr")
          /\ target' = WithDiskId(target, disk_id.byte_sequence)
          /\ log' = Append(log, E("set_disk_id_in_mbr", <<>>, "ok"))
          /\ UNCHANGED faults
       \/ /\ disk_id.given
          /\ HasDiskIdLength(disk_id.byte_sequence)
          /\ faults > 0
          /\ Raises("set_disk_id_in_mbr")
          /\ target' \in { target, Opened(target) }
          /\ log' = Append(log, E("set_disk_id_in_mbr", <<>>, "fail"))
          /\ faults' = faults - 1
    /\ UNCHANGED << fields, mounts, mapper_active, mountpoint_exists,
                    device_map_exists, chroot_scripts, etc_files >>

\* the device file of the first partition, '/dev/mapper/%s' (engine.py:290)
FirstPartitionDevice == <<"dev", "mapper", "target1">>

\* engine.py:301: for i in range(3)
DevicePolls == 3

\* what os.path.exists tells of the device file at each of the polls
DeviceAtOnce == [i \in 1..DevicePolls |-> "yes"]

DeviceNever == [i \in 1..DevicePolls |-> "no"]

\* engine.py:301-307, the loop from poll i on: whether it was left by
\* break, and the polls made
RECURSIVE PollLoop(_, _)
PollLoop(exists, i) ==
    IF i > DevicePolls THEN [found |-> FALSE, polls |-> DevicePolls]
    ELSE IF exists[i] = "yes" THEN [found |-> TRUE, polls |-> i]
    ELSE PollLoop(exists, i + 1)

\* a loop without its else clause: it ends normally after the last poll
WaitedForDeviceWithoutElse(exists) ==
    IF \E i \in 1..DevicePolls : exists[i] = "yes"
    THEN [found |-> TRUE,
          polls |-> CHOOSE i \in 1..DevicePolls :
                       exists[i] = "yes" /\ \A j \in 1..(i - 1) : exists[j] = "no"]
    ELSE [found |-> TRUE, polls |-> DevicePolls]

\* engine.py:301-307
WaitedForDevice(exists) == PollLoop(exists, 1)

\* engine.py:736; engine.py:281-307, with the device file showing up as one
\* of schedules tells.  The step ends in one of four ways:
\*   "list":   kpartx -l fails, before the device path is set
\*   "add":    kpartx -u -s fails, the device path being set
\*   "ENOENT": the mapper devices are made but the device file is there at
\*             none of the polls: OSError(ENOENT)
\*   "ok":     the device file is there at a poll
\* The record gets every poll made and what it found.
create_partition_devices_given(schedules) ==
    /\ pc = "create_partition_devices"
    /\ \/ \E how \in { "list", "add" } :
             /\ faults > 0
             /\ faults' = faults - 1
             /\ abs_first_partition_device' =
                    IF how = "list" THEN abs_first_partition_device
                    ELSE FirstPartitionDevice
             /\ UNCHANGED mapper_active
             /\ log' = Append(log, E("create_partition_devices", <<>>, "fail"))
             /\ Raises("create_partition_devices")
       \/ \E exists \in schedules :
             LET r == WaitedForDevice(exists)
                 polled == [i \in 1..r.polls |->
                              E("exists", FirstPartitionDevice, exists[i])]
             IN  /\ ~r.found => faults > 0
                 /\ faults' = IF r.found THEN faults ELSE faults - 1
                 /\ abs_first_partition_device' = FirstPartitionDevice
                 /\ mapper_active' = TRUE
                 /\ log' = log \o polled \o
                             << E("create_partition_devices", <<>>,
                                  IF r.found THEN "ok" ELSE "ENOENT") >>
                 /\ IF r.found THEN Completes("create_partition_devices")
                    ELSE Raises("create_partition_devices")
    /\ UNCHANGED << distro, bootloader_approach, command_grub2_install,
                    with_openstack, root_password, disk_id, abs_scripts_dir_chroot, first_partition_uuid,
                    abs_mountpoint, mounts, mountpoint_exists,
                    device_map_exists, chroot_scripts, etc_files, target >>

\* engine.py:736, with a device file that is there at once or never
create_partition_devices ==
    create_partition_devices_given({ DeviceAtOnce, DeviceNever })

\* engine.py:738; engine.py:309-316
format_partitions == Plain("format_partitions")

\* engine.py:740-741; engine.py:368-377: the caller's UUID is stamped
set_first_partition_uuid ==
    /\ first_partition_uuid # NoUuid
    /\ PlainAs("first_partition_uuid", "set_first_partition_uuid")

\* engine.py:742-743; engine.py:379-389: the UUID is asked for, and kept if
\* blkid succeeds and its output, the trailing whitespace off, is a
\* well-formed UUID; else the step raises
gather_first_partition_uuid ==
    /\ pc = "first_partition_uuid"
    /\ first_partition_uuid = NoUuid
    /\ \/ \E output \in BlkidOutputs :
             IF SANE_UUID_CHECKER(rstrip(output))
             THEN /\ Completes("first_partition_uuid")
                  /\ first_partition_uuid' = rstrip(output)
                  /\ log' = Append(log, E("gather_first_partition_uuid", <<>>, "ok"))
                  /\ UNCHANGED faults
             ELSE /\ faults > 0
                  /\ Raises("first_partition_uuid")
                  /\ UNCHANGED first_partition_uuid
                  /\ log' = Append(log, E("gather_first_partition_uuid", <<>>,
                                          "ValueError"))
                  /\ faults' = faults - 1
       \/ /\ faults > 0
          /\ Raises("first_partition_uuid")
          /\ UNCHANGED first_partition_uuid
          /\ log' = Append(log, E("gather_first_partition_uuid", <<>>, "fail"))
          /\ faults' = faults - 1
    /\ UNCHANGED << distro, bootloader_approach, command_grub2_install,
                    with_openstack, root_password, disk_id, abs_scripts_dir_chroot, abs_mountpoint,
                    abs_first_partition_device, system >>

\* engine.py:746; engine.py:318-320
mkdir_mountpount ==
    /\ pc = "mkdir_mountpount"
    /\ \/ /\ Completes("mkdir_mountpount")
          /\ abs_mountpoint' = TmpMountpoint
          /\ mountpoint_exists' = TRUE
          /\ log' = Append(log, E("mkdir_mountpount", <<>>, "ok"))
          /\ UNCHANGED faults
       \/ /\ faults > 0
          /\ Raises("mkdir_mountpount")
          /\ UNCHANGED << abs_mountpoint, mountpoint_exists >>
          /\ log' = Append(log, E("mkdir_mountpount", <<>>, "fail"))
          /\ faults' = faults - 1
    /\ UNCHANGED << distro, bootloader_approach, command_grub2_install,
                    with_openstack, root_password, disk_id, abs_scripts_dir_chroot, first_partition_uuid,
                    abs_first_partition_device, mounts, mapper_active,
                    device_map_exists, chroot_scripts, etc_files, target >>

\* engine.py:748; engine.py:327-334
mount_disk_chroot_mounts ==
    /\ pc = "mount_disk_chroot_mounts"
    /\ \/ /\ Completes("mount_disk_chroot_mounts")
          /\ mounts' = Append(mounts, abs_mountpoint)
          /\ log' = Append(log, E("mount_disk_chroot_mounts", abs_mountpoint, "ok"))
          /\ UNCHANGED faults
       \/ /\ faults > 0
          /\ Raises("mount_disk_chroot_mounts")
          /\ UNCHANGED mounts
          /\ log' = Append(log, E("mount_disk_chroot_mounts", abs_mountpoint, "fail"))
          /\ faults' = faults - 1
    /\ UNCHANGED << fields, mapper_active, mountpoint_exists, device_map_exists,
                    chroot_scripts, etc_files, target >>

\* engine.py:750; engine.py:322-325
mkdir_mountpount_etc == Plain("mkdir_mountpount_etc")

\* a statement that leaves the file of etc as it finds it
LeavesEtc(step, file) ==
    /\ pc = step
    /\ \/ /\ Completes(step)
          /\ log' = Append(log, E(step, <<>>, "ok"))
          /\ UNCHANGED faults
       \/ /\ faults > 0
          /\ Raises(step)
          /\ log' = Append(log, E(step, <<>>, "fail"))
          /\ faults' = faults - 1
    /\ UNCHANGED << fields, system >>

\* a statement that writes the file of etc anew: it succeeds and the
\* content is the engine's, or it fails with one of the failures left
WritesEtc(step, file) ==
    /\ pc = step
    /\ \/ /\ Completes(step)
          /\ etc_files' = [etc_files EXCEPT ![file] = "engine"]
          /\ log' = Append(log, E(step, <<>>, "ok"))
          /\ UNCHANGED faults
       \/ /\ faults > 0
          /\ Raises(step)
          /\ UNCHANGED etc_files
          /\ log' = Append(log, E(step, <<>>, "fail"))
          /\ faults' = faults - 1
    /\ UNCHANGED << fields, mounts, mapper_active, mountpoint_exists,
                    device_map_exists, chroot_scripts, target >>

\* engine.py:751 and 757; engine.py:398-403
create_etc_hostname ==
    \/ WritesEtc("create_etc_hostname_1", "hostname")
    \/ WritesEtc("create_etc_hostname_2", "hostname")

\* engine.py:752 and 758; engine.py:537-540
create_etc_resolv_conf ==
    \/ WritesEtc("create_etc_resolv_conf_1", "resolv_conf")
    \/ WritesEtc("create_etc_resolv_conf_2", "resolv_conf")

\* engine.py:754: what the distro's bootstrap may leave of the two files:
\* each as it was, or replaced by the distro's own
EtcAfterBootstrap(before) ==
    { [hostname |-> h, resolv_conf |-> r] :
        h \in { before.hostname, "distro" }, r \in { before.resolv_conf, "distro" } }

\* engine.py:754; engine.py:336-341: the distro's bootstrap, which may leave
\* mounts below the mountpoint whether it returns or raises
run_directory_bootstrap ==
    /\ pc = "run_directory_bootstrap"
    /\ \/ /\ distro # None
          /\ \E left \in BootstrapLeftovers :
                mounts' = mounts \o [i \in 1..Len(left) |-> Join(abs_mountpoint, left[i])]
          /\ etc_files' \in EtcAfterBootstrap(etc_files)
          /\ \/ /\ Completes("run_directory_bootstrap")
                /\ log' = Append(log, E("run_directory_bootstrap", <<>>, "ok"))
                /\ UNCHANGED faults
             \/ /\ faults > 0
                /\ Raises("run_directory_bootstrap")
                /\ log' = Append(log, E("run_directory_bootstrap", <<>>, "fail"))
                /\ faults' = faults - 1
       \/ /\ distro = None
          /\ Raises("run_directory_bootstrap")
          /\ log' = Append(log, E("run_directory_bootstrap", <<>>, "fail"))
          /\ UNCHANGED << mounts, etc_files, faults >>
    /\ UNCHANGED << fields, mapper_active, mountpoint_exists, device_map_exists,
                    chroot_scripts, target >>

\* a finally block that unmounts the paths of targets in turn: the record
\* gets one entry for each try_unmounting call and one for the block
UnmountsAll(step, targets) ==
    /\ pc = step
    /\ \E scen \in ScenariosFor(targets, faults) :
          LET r == UnmountEach(targets, scen, mounts, 1)
          IN  /\ mounts' = r.mounts
              /\ faults' = faults - FaultsOf(scen)
              /\ log' = log \o UmountEntries(targets, scen, r.tried)
                            \o << E(step, <<>>, IF r.raised THEN "fail" ELSE "ok") >>
              /\ IF r.raised THEN Raises(step) ELSE Completes(step)
    /\ UNCHANGED << fields, mapper_active, mountpoint_exists, device_map_exists,
                    chroot_scripts, etc_files, target >>

\* engine.py:756; engine.py:343-347
unmount_directory_bootstrap_leftovers ==
    UnmountsAll("unmount_directory_bootstrap_leftovers",
                LeftoverUnmountOrder(mounts, abs_mountpoint))

\* engine.py:395: the line of etc/fstab
FstabLine(uuid) == << "/dev/disk/by-uuid/", uuid, " / auto defaults 0 1" >>

\* engine.py:759; engine.py:391-396
create_etc_fstab == PlainWith("create_etc_fstab", FstabLine(first_partition_uuid))

\* engine.py:760; engine.py:405-406
create_network_configuration == Hook("create_network_configuration")

\* engine.py:417-423, _run_scripts_from, called at the statement step for a
\* directory with the names of listing: the record gets the scripts executed
\* and the one that failed, if one did
run_scripts_at(step, listing) ==
    /\ pc = step
    /\ LET scripts == ScriptsToRun(listing)
       IN  \/ /\ Completes(step)
              /\ log' = Append(log, E(step, [run |-> scripts, failed |-> <<>>],
                                       "ok"))
              /\ UNCHANGED faults
           \/ /\ faults > 0
              /\ \E k \in 1..Len(scripts) :
                    log' = Append(log,
                                  E(step,
                                    [run |-> ScriptsRunUntilFailure(scripts, k),
                                     failed |-> scripts[k]],
                                    "fail"))
              /\ Raises(step)
              /\ faults' = faults - 1
    /\ UNCHANGED << fields, system >>

\* engine.py:761; engine.py:441-445, with a pre-chroot scripts directory
run_pre_scripts == run_scripts_at("run_pre_scripts", ScriptsDirListing)

\* engine.py:480-481
UsesDeviceMap(approach) ==
    approach \in { BOOTLOADER__CHROOT_GRUB2__DRIVE, BOOTLOADER__HOST_GRUB2__DRIVE }

\* engine.py:483-523: the statements of _install_bootloader__grub2 that can
\* raise: writing the device map (drive variants), the installer call, and
\* removing the device map (drive variants)
InstallFailures(approach) ==
    IF UsesDeviceMap(approach) THEN { "open", "check_call", "remove" }
    ELSE { "check_call" }

\* engine.py:483-523: the device map is written by line 490 and removed by
\* line 523 only, which a raising statement in between does not reach
DeviceMapAfterFailure(approach, failed) ==
    UsesDeviceMap(approach) /\ failed \in { "check_call", "remove" }

\* engine.py:500-514: the first word of the installer call
InstallerCommand(approach, command) ==
    IF InstallsFromHost(approach) THEN command ELSE "chroot"

\* engine.py:476-523, _install_bootloader__grub2, called at the statement
\* step; a call whose first word is None raises (engine.py:520)
install_bootloader__grub2(step) ==
    /\ pc = step
    /\ \/ /\ distro # None \/ ~InstallsFromChroot(bootloader_approach)
          /\ InstallerCommand(bootloader_approach, command_grub2_install) # None
          /\ Completes(step)
          /\ log' = Append(log, E("install_bootloader__grub2",
                                  << bootloader_approach >>, "ok"))
          /\ device_map_exists' = FALSE
          /\ UNCHANGED faults
       \/ /\ Raises(step)
          /\ log' = Append(log, E("install_bootloader__grub2",
                                  << bootloader_approach >>, "fail"))
          /\ \E failed \in InstallFailures(bootloader_approach) :
                LET unset == InstallerCommand(bootloader_approach,
                                              command_grub2_install) = None
                IN  /\ unset => failed # "remove"
                    /\ ~(unset /\ failed = "check_call") => faults > 0
                    /\ faults' = IF unset /\ failed = "check_call"
                                 THEN faults ELSE faults - 1
                    /\ device_map_exists' =
                          DeviceMapAfterFailure(bootloader_approach, failed)
    /\ UNCHANGED << fields, mounts, mapper_active, mountpoint_exists,
                    chroot_scripts, etc_files, target >>

\* engine.py:762-763
install_bootloader__grub2_host ==
    \/ /\ InstallsFromHost(bootloader_approach)
       /\ install_bootloader__grub2("install_bootloader__grub2_host")
    \/ /\ pc = "install_bootloader__grub2_host"
       /\ ~InstallsFromHost(bootloader_approach)
       /\ Skips(After("install_bootloader__grub2_host"))
       /\ UNCHANGED << fields, system >>

\* engine.py:764; engine.py:447-458: the mounts are made in the order of
\* _NON_DISK_MOUNT_TASKS; n of them succeed, and if that is not all of them
\* the next one fails and the step raises
mount_nondisk_chroot_mounts ==
    /\ pc = "mount_nondisk_chroot_mounts"
    /\ LET order == NonDiskMountOrder(abs_mountpoint)
       IN  \E n \in 0..Len(order) :
              /\ n < Len(order) => faults > 0
              /\ faults' = IF n < Len(order) THEN faults - 1 ELSE faults
              /\ mounts' = mounts \o SubSeq(order, 1, n)
              /\ log' = log
                          \o [i \in 1..n |-> E("mount", order[i], "ok")]
                          \o ( IF n < Len(order)
                               THEN << E("mount", order[n + 1], "fail"),
                                       E("mount_nondisk_chroot_mounts", <<>>, "fail") >>
                               ELSE << E("mount_nondisk_chroot_mounts", <<>>, "ok") >> )
              /\ IF n < Len(order) THEN Raises("mount_nondisk_chroot_mounts")
                 ELSE Completes("mount_nondisk_chroot_mounts")
    /\ UNCHANGED << fields, mapper_active, mountpoint_exists, device_map_exists,
                    chroot_scripts, etc_files, target >>

\* a step that starts chpasswd only for a password that is not empty
StartsChpasswdUnlessEmpty(password) == password \notin { None, "" }

\* engine.py:351-352
StartsChpasswd(password) == password # None

\* engine.py:766; engine.py:349-366: without a password the step returns at
\* once; with one, chpasswd runs in the chroot and the step raises if it
\* exits with a non-zero status.  The record tells whether chpasswd ran.
set_root_password_inside_chroot ==
    /\ pc = "set_root_password_inside_chroot"
    /\ IF StartsChpasswd(root_password)
       THEN \/ /\ Completes("set_root_password_inside_chroot")
               /\ log' = Append(log, E("set_root_password_inside_chroot",
                                        << "chpasswd" >>, "ok"))
               /\ UNCHANGED faults
            \/ /\ faults > 0
               /\ Raises("set_root_password_inside_chroot")
               /\ log' = Append(log, E("set_root_password_inside_chroot",
                                        << "chpasswd" >>, "fail"))
               /\ faults' = faults - 1
       ELSE /\ Completes("set_root_password_inside_chroot")
            /\ log' = Append(log, E("set_root_password_inside_chroot", <<>>, "ok"))
            /\ UNCHANGED faults
    /\ UNCHANGED << fields, system >>

\* engine.py:768-769; engine.py:472-474
ensure_chroot_has_grub2_installed ==
    \/ /\ InstallsFromChroot(bootloader_approach)
       /\ Hook("ensure_chroot_has_grub2_installed")
    \/ /\ pc = "ensure_chroot_has_grub2_installed"
       /\ ~InstallsFromChroot(bootloader_approach)
       /\ Skips(After("install_bootloader__grub2_chroot"))
       /\ UNCHANGED << fields, system >>

\* engine.py:770
install_bootloader__grub2_chroot ==
    install_bootloader__grub2("install_bootloader__grub2_chroot")

\* engine.py:772-774; engine.py:525-527
generate_grub_cfg_from_inside_chroot ==
    \/ /\ GeneratesGrubCfg(bootloader_approach)
       /\ Hook("generate_grub_cfg_from_inside_chroot")
    \/ /\ pc = "generate_grub_cfg_from_inside_chroot"
       /\ ~GeneratesGrubCfg(bootloader_approach)
       /\ Skips(After("fix_grub_cfg_root_device"))
       /\ UNCHANGED << fields, system >>

\* a substitution that names the partition by its label
RootArgumentByLabel(uuid) == << "root=LABEL=", uuid >>

\* engine.py:412: what sed puts in the place of every root= argument
RootArgument(uuid) == << "root=UUID=", uuid >>

\* engine.py:776; engine.py:408-415
fix_grub_cfg_root_device ==
    PlainWith("fix_grub_cfg_root_device", RootArgument(first_partition_uuid))

\* engine.py:778; engine.py:529-530
adjust_initramfs_generator_config == Hook("adjust_initramfs_generator_config")

\* engine.py:779; engine.py:532-535
generate_initramfs_from_inside_chroot == Hook("generate_initramfs_from_inside_chroot")

\* engine.py:781-782; engine.py:669-671
install_sudo ==
    \/ /\ with_openstack
       /\ Hook("install_sudo")
    \/ /\ pc = "install_sudo"
       /\ ~with_openstack
       /\ Skips(After("make_openstack_services_autostart"))
       /\ UNCHANGED << fields, system >>

\* engine.py:783; engine.py:673-693
create_sudo_nopasswd_user == Hook("create_sudo_nopasswd_user")

\* engine.py:784; engine.py:695-697
install_cloud_init_and_friends == Hook("install_cloud_init_and_friends")

\* engine.py:785; engine.py:699-722
configure_cloud_init_and_friends == Hook("configure_cloud_init_and_friends")

\* engine.py:786; engine.py:724-726
install_sshd == Hook("install_sshd")

\* engine.py:787; engine.py:728-730
make_openstack_services_autostart == Hook("make_openstack_services_autostart")

\* engine.py:550-552, 572-574, 585-587: the files of the chroot scripts
\* directory the three loops deal with, in an order os.listdir can give them
ChrootScripts == ScriptsToRun(ScriptsDirListing)

\* engine.py:545-567: the statements of _copy_chroot_scripts that can
\* raise: mkdir, and cp and chmod for the k-th script
CopyFailures ==
    { [cmd |-> "mkdir", k |-> 0] }
        \cup { [cmd |-> cmd, k |-> k] :
                 cmd \in { "cp", "chmod" }, k \in 1..Len(ChrootScripts) }

\* engine.py:545-567: what there is of root/chroot-scripts when the
\* statement failed raises: nothing if mkdir failed, else the directory with
\* the scripts copied before
ChrootScriptsAfterCopyFailure(before, failed) ==
    IF failed.cmd = "mkdir" THEN before
    ELSE [exists |-> TRUE,
          files |-> { ChrootScripts[i] :
                        i \in 1..(IF failed.cmd = "cp" THEN failed.k - 1
                                  ELSE failed.k) }]

\* engine.py:585-601: the statements of _remove_chroot_scripts that can
\* raise: rm for the k-th script, and rmdir
RemoveFailures ==
    { [cmd |-> "rm", k |-> k] : k \in 1..Len(ChrootScripts) }
        \cup { [cmd |-> "rmdir", k |-> 0] }

\* engine.py:585-601: what is left of root/chroot-scripts when the
\* statement failed raises
ChrootScriptsAfterRemoveFailure(before, failed) ==
    IF failed.cmd = "rmdir" THEN [exists |-> before.exists, files |-> {}]
    ELSE [exists |-> before.exists,
          files |-> before.files
                      \ { ChrootScripts[i] : i \in 1..(failed.k - 1) }]

\* engine.py:789-790; engine.py:542-567
copy_chroot_scripts ==
    \/ /\ abs_scripts_dir_chroot # None
       /\ pc = "copy_chroot_scripts"
       /\ \/ /\ Completes("copy_chroot_scripts")
             /\ chroot_scripts' = [exists |-> TRUE, files |-> Range(ChrootScripts)]
             /\ log' = Append(log, E("copy_chroot_scripts", <<>>, "ok"))
             /\ UNCHANGED faults
          \/ /\ faults > 0
             /\ Raises("copy_chroot_scripts")
             /\ \E failed \in CopyFailures :
                   chroot_scripts' =
                       ChrootScriptsAfterCopyFailure(chroot_scripts, failed)
             /\ log' = Append(log, E("copy_chroot_scripts", <<>>, "fail"))
             /\ faults' = faults - 1
       /\ UNCHANGED << fields, mounts, mapper_active, mountpoint_exists,
                       device_map_exists, etc_files, target >>
    \/ /\ pc = "copy_chroot_scripts"
       /\ abs_scripts_dir_chroot = None
       /\ Skips(After("remove_chroot_scripts"))
       /\ UNCHANGED << fields, system >>

\* engine.py:792; engine.py:569-581
run_chroot_scripts == Plain("run_chroot_scripts")

\* engine.py:794; engine.py:583-601
remove_chroot_scripts ==
    /\ pc = "remove_chroot_scripts"
    /\ \/ /\ Completes("remove_chroot_scripts")
          /\ chroot_scripts' = NoChrootScripts
          /\ log' = Append(log, E("remove_chroot_scripts", <<>>, "ok"))
          /\ UNCHANGED faults
       \/ /\ faults > 0
          /\ Raises("remove_chroot_scripts")
          /\ \E failed \in RemoveFailures :
                chroot_scripts' =
                    ChrootScriptsAfterRemoveFailure(chroot_scripts, failed)
          /\ log' = Append(log, E("remove_chroot_scripts", <<>>, "fail"))
          /\ faults' = faults - 1
    /\ UNCHANGED << fields, mounts, mapper_active, mountpoint_exists,
                    device_map_exists, etc_files, target >>

\* engine.py:796; engine.py:606-610
unmount_nondisk_chroot_mounts ==
    UnmountsAll("unmount_nondisk_chroot_mounts", NonDiskUnmountOrder(abs_mountpoint))

\* engine.py:797; engine.py:612-613
perform_post_chroot_clean_up == Hook("perform_post_chroot_clean_up")

\* engine.py:798; engine.py:615-619, with a post-chroot scripts directory
run_post_scripts == run_scripts_at("run_post_scripts", ScriptsDirListing)

\* engine.py:800; engine.py:621-623
unmount_disk_chroot_mounts ==
    UnmountsAll("unmount_disk_chroot_mounts", << abs_mountpoint >>)

\* what os.rmdir can end with: success, EBUSY, or another error (EPERM for one)
RmdirScenarios ==
    { [i \in 1..UnmountTries |-> "ok"],
      [i \in 1..UnmountTries |-> IF i < UnmountTries THEN "EBUSY" ELSE "ok"],
      [i \in 1..UnmountTries |-> "EBUSY"],
      [i \in 1..UnmountTries |-> IF i = 1 THEN "EPERM" ELSE "ok"] }

\* a loop that tries again after every error
RECURSIVE RmdirLoopRetryingAll(_, _)
RmdirLoopRetryingAll(errnos, i) ==
    IF i > UnmountTries
    THEN [raised |-> FALSE, done |-> FALSE, attempts |-> UnmountTries]
    ELSE IF errnos[i] = "ok"
    THEN [raised |-> FALSE, done |-> TRUE, attempts |-> i]
    ELSE RmdirLoopRetryingAll(errnos, i + 1)

\* engine.py:636-644, the loop of _rmdir_mountpount from attempt i on
RECURSIVE RmdirLoop(_, _)
RmdirLoop(errnos, i) ==
    IF i > UnmountTries
    THEN [raised |-> FALSE, done |-> FALSE, attempts |-> UnmountTries]
    ELSE IF errnos[i] = "ok"
    THEN [raised |-> FALSE, done |-> TRUE, attempts |-> i]
    ELSE IF errnos[i] # "EBUSY"
    THEN [raised |-> TRUE, done |-> FALSE, attempts |-> i]
    ELSE RmdirLoop(errnos, i + 1)

\* engine.py:802; engine.py:634-644
rmdir_mountpount ==
    /\ pc = "rmdir_mountpount"
    /\ \E errnos \in RmdirScenarios :
          LET r == RmdirLoop(errnos, 1)
              clean == errnos = [i \in 1..UnmountTries |-> "ok"]
          IN  /\ ~clean => faults > 0
              /\ faults' = IF clean THEN faults ELSE faults - 1
              /\ mountpoint_exists' = IF r.done THEN FALSE ELSE mountpoint_exists
              /\ log' = Append(log, E("rmdir_mountpount", abs_mountpoint,
                                      UmountResult(r)))
              /\ IF r.raised THEN Raises("rmdir_mountpount")
                 ELSE Completes("rmdir_mountpount")
    /\ UNCHANGED << fields, mounts, mapper_active, device_map_exists,
                    chroot_scripts, etc_files, target >>

\* distro.py:554-562, the loop check_call__keep_trying makes around a command
check_call__keep_trying(codes) == TryLoop(codes, 1)

\* engine.py:804; engine.py:625-632
remove_partition_devices ==
    /\ pc = "remove_partition_devices"
    /\ \E codes \in UmountScenarios :
          LET r == check_call__keep_trying(codes)
          IN  /\ codes # AllOk => faults > 0
              /\ faults' = IF codes = AllOk THEN faults ELSE faults - 1
              /\ mapper_active' = IF r.done THEN FALSE ELSE mapper_active
              /\ log' = Append(log, E("remove_partition_devices", <<>>,
                                      UmountResult(r)))
              /\ IF r.raised THEN Raises("remove_partition_devices")
                 ELSE Completes("remove_partition_devices")
    /\ UNCHANGED << fields, mounts, mountpoint_exists, device_map_exists,
                    chroot_scripts, etc_files, target >>

\* ------------------------------------------------------------ specification

Next ==
    \/ set_distro
    \/ select_bootloader
    \/ detect_grub2_install
    \/ unshare
    \/ partition_device
    \/ set_disk_id_in_mbr
    \/ create_partition_devices
    \/ format_partitions
    \/ set_first_partition_uuid
    \/ gather_first_partition_uuid
    \/ mkdir_mountpount
    \/ mount_disk_chroot_mounts
    \/ mkdir_mountpount_etc
    \/ create_etc_hostname
    \/ create_etc_resolv_conf
    \/ run_directory_bootstrap
    \/ unmount_directory_bootstrap_leftovers
    \/ create_etc_fstab
    \/ create_network_configuration
    \/ run_pre_scripts
    \/ install_bootloader__grub2_host
    \/ mount_nondisk_chroot_mounts
    \/ set_root_password_inside_chroot
    \/ ensure_chroot_has_grub2_installed
    \/ install_bootloader__grub2_chroot
    \/ generate_grub_cfg_from_inside_chroot
    \/ fix_grub_cfg_root_device
    \/ adjust_initramfs_generator_config
    \/ generate_initramfs_from_inside_chroot
    \/ install_sudo
    \/ create_sudo_nopasswd_user
    \/ install_cloud_init_and_friends
    \/ configure_cloud_init_and_friends
    \/ install_sshd
    \/ make_openstack_services_autostart
    \/ copy_chroot_scripts
    \/ run_chroot_scripts
    \/ remove_chroot_scripts
    \/ unmount_nondisk_chroot_mounts
    \/ perform_post_chroot_clean_up
    \/ run_post_scripts
    \/ unmount_disk_chroot_mounts
    \/ rmdir_mountpount
    \/ remove_partition_devices

Spec == Init /\ [][Next]_vars

\* ------------------------------------------- the mount-below specification

\* the mount points the tables of SpecMounts are made of
PathUniverse ==
    { UnrelatedMount,
      TmpMountpoint,
      Join(TmpMountpoint, <<"dev">>),
      Join(TmpMountpoint, <<"dev", "pts">>),
      Join(TmpMountpoint, <<"sys">>) }

\* every mount table of at most MaxTable other mounts in which the first
\* partition is mounted at the mountpoint, in every order
MountTables ==
    { m \in UNION { [1..n -> PathUniverse] : n \in 1..(MaxTable + 1) } :
        /\ \A i, j \in 1..Len(m) : i # j => m[i] # m[j]
        /\ TmpMountpoint \in Range(m) }

\* the record of a run that got as far as the distro's bootstrap
LogUpToBootstrap(uuid_given, res) ==
    [i \in 1..IndexOf("run_directory_bootstrap") |->
        E(IF RunOrder[i] = "first_partition_uuid"
          THEN (IF uuid_given THEN "set_first_partition_uuid"
                ELSE "gather_first_partition_uuid")
          ELSE RunOrder[i],
          IF RunOrder[i] = "mount_disk_chroot_mounts" THEN TmpMountpoint ELSE <<>>,
          IF RunOrder[i] = "run_directory_bootstrap" THEN res ELSE "ok")]

\* run() at the finally block of engine.py:756, the distro's bootstrap having
\* returned or raised, with any mount table
InitMounts ==
    /\ distro = "distro"
    /\ bootloader_approach = BOOTLOADER__NONE
    /\ command_grub2_install = "/opt/grub/sbin/grub-install"
    /\ with_openstack = FALSE
    /\ root_password = GivenRootPassword
    /\ disk_id = NoDiskId
    /\ abs_scripts_dir_chroot = None
    /\ first_partition_uuid = CanonicalUuid
    /\ abs_mountpoint = TmpMountpoint
    /\ abs_first_partition_device = FirstPartitionDevice
    /\ mounts \in MountTables
    /\ mapper_active = TRUE
    /\ mountpoint_exists = TRUE
    /\ device_map_exists = FALSE
    /\ chroot_scripts = NoChrootScripts
    /\ etc_files = NoEtcFiles
    /\ target = ScratchFile
    /\ pc = "unmount_directory_bootstrap_leftovers"
    /\ exc \in { None, "run_directory_bootstrap" }
    /\ origin = exc
    /\ log = LogUpToBootstrap(FALSE, IF exc = None THEN "ok" ELSE "fail")
    /\ faults = IF exc = None THEN MaxFaults ELSE MaxFaults - 1

NextMounts == unmount_directory_bootstrap_leftovers

SpecMounts == InitMounts /\ [][NextMounts]_vars

\* ------------------------------------------------------ reading the record

Done == pc = "done"

\* the places of the record where operation op is
Places(op) == { i \in 1..Len(log) : log[i].op = op }

Count(op) == Cardinality(Places(op))

\* the first place of op in the record, 0 if there is none
Pos(op) == IF Places(op) = {} THEN 0
           ELSE CHOOSE i \in Places(op) : \A j \in Places(op) : i <= j

\* op was invoked and returned without raising
Completed(op) == \E i \in Places(op) : log[i].res = "ok"

\* the paths of the operations op of the record between places lo and hi
ArgsBetween(op, lo, hi) ==
    LET part == SelectSeq(SubSeq(log, lo + 1, hi - 1), LAMBDA e : e.op = op)
    IN  [i \in 1..Len(part) |-> part[i].arg]

IsPrefixSeq(s, t) == Len(s) <= Len(t) /\ s = SubSeq(t, 1, Len(s))

\* the steps of run that are not finally blocks
ForwardSteps == (Steps \ Releases) \ { "done" }

\* a forward step of run has failed
ForwardFailure == origin \in ForwardSteps

\* ------------------------------------------------- acquisitions and releases

\* the acquisition steps of run that have a release, in the order of run
Acquisitions ==
    << "create_partition_devices", "mkdir_mountpount", "mount_disk_chroot_mounts",
       "run_directory_bootstrap", "mount_nondisk_chroot_mounts",
       "copy_chroot_scripts" >>

ReleaseOf(acquisition) ==
    CASE acquisition = "create_partition_devices" -> "remove_partition_devices"
      [] acquisition = "mkdir_mountpount" -> "rmdir_mountpount"
      [] acquisition = "mount_disk_chroot_mounts" -> "unmount_disk_chroot_mounts"
      [] acquisition = "run_directory_bootstrap"
            -> "unmount_directory_bootstrap_leftovers"
      [] acquisition = "mount_nondisk_chroot_mounts"
            -> "unmount_nondisk_chroot_mounts"
      [] acquisition = "copy_chroot_scripts" -> "remove_chroot_scripts"

\* the acquisitions this run has completed, in the order of run
CompletedAcquisitions == SelectSeq(Acquisitions, Completed)

\* the releases of completed acquisitions, in the order they were invoked
InvokedReleases ==
    LET mine == { ReleaseOf(a) : a \in Range(CompletedAcquisitions) }
        part == SelectSeq(log, LAMBDA e : e.op \in mine)
    IN  [i \in 1..Len(part) |-> part[i].op]

\* the acquisitions and releases of the record, in the order they were invoked
AcquisitionRecord ==
    LET ops == Range(Acquisitions) \cup { ReleaseOf(a) : a \in Range(Acquisitions) }
        part == SelectSeq(log, LAMBDA e : e.op \in ops)
    IN  [i \in 1..Len(part) |-> E(part[i].op, <<>>, part[i].res)]

\* the first place of op in the record rec, 0 if there is none
PosIn(rec, op) ==
    IF \E i \in 1..Len(rec) : rec[i].op = op
    THEN CHOOSE i \in 1..Len(rec) :
             rec[i].op = op /\ \A j \in 1..(i - 1) : rec[j].op # op
    ELSE 0

\* ------------------------------------------------------------------- claims

\* C1 as stated: when a forward step of run has failed and run is left, the
\* releases of the acquisition steps completed before it have each been
\* invoked exactly once, in exactly the reverse of the order of acquisition.
C1_ReleasesInReverseAcquisitionOrder ==
    (Done /\ ForwardFailure) =>
        InvokedReleases =
            Reverse([i \in 1..Len(CompletedAcquisitions) |->
                        ReleaseOf(CompletedAcquisitions[i])])

\* C1 as amended: when a forward step of run has failed and run is left, the
\* release of every acquisition step completed before it has been invoked
\* exactly once, after the acquisition, and the releases are nested: of two
\* completed acquisitions the earlier one is released either before the
\* later one is acquired (the bootstrap-leftover unmount, which runs right
\* after the bootstrap) or after the later one is released.
C1_ReleasesOnceAndNested ==
    (Done /\ ForwardFailure) =>
        LET rec == AcquisitionRecord
            completed == { a \in Range(Acquisitions) :
                             \E i \in 1..Len(rec) : rec[i] = E(a, <<>>, "ok") }
            P(op) == PosIn(rec, op)
        IN  /\ \A a \in completed :
                  /\ Cardinality({ i \in 1..Len(rec) : rec[i].op = ReleaseOf(a) }) = 1
                  /\ P(a) < P(ReleaseOf(a))
            /\ \A a, b \in completed :
                  P(a) < P(b) =>
                      \/ P(ReleaseOf(a)) < P(b)
                      \/ P(ReleaseOf(b)) < P(ReleaseOf(a))
            /\ \A a, b \in completed \ { "run_directory_bootstrap" } :
                  P(a) < P(b) => P(ReleaseOf(b)) < P(ReleaseOf(a))

\* C1 witness: run is left after a failure of a step that follows the bind
\* mounts, with the mapper devices, the mountpoint, the partition mount, the
\* bootstrap and the bind mounts acquired
C1_Witness ==
    /\ Done
    /\ ForwardFailure
    /\ Completed("mount_nondisk_chroot_mounts")
    /\ Len(CompletedAcquisitions) >= 5

\* C2 as stated: when run is left, every resource handle that was set has
\* had its teardown executed: the mapper devices were deactivated if the
\* device path is set, the mountpoint was removed if its path is set, and
\* every mount this run made at or below the mountpoint was unmounted.
C2_EveryHandleTornDown ==
    Done =>
        /\ abs_first_partition_device # NoPath => Count("remove_partition_devices") > 0
        /\ abs_mountpoint # NoPath => Count("rmdir_mountpount") > 0
        /\ \A i \in 1..Len(log) :
              (log[i].op \in { "mount", "mount_disk_chroot_mounts" } /\ log[i].res = "ok")
                  => \E j \in (i + 1)..Len(log) :
                        log[j].op = "umount" /\ log[j].arg = log[i].arg

\* C3 as stated: when a forward step of run has failed, the error that
\* leaves run is the error of that step.
C3_OriginalErrorPropagates ==
    (Done /\ ForwardFailure) => exc = origin

\* a run that went through without any step raising
Successful == Done /\ exc = None /\ origin = None

\* the operations of ops are in the record, each after the one before it
InOrder(ops) ==
    /\ \A i \in 1..Len(ops) : Pos(ops[i]) > 0
    /\ \A i \in 1..(Len(ops) - 1) : Pos(ops[i]) < Pos(ops[i + 1])

\* C4 as stated: in a successful run with approach none and no cloud
\* support the record holds partition, format, mount, bootstrap, fstab,
\* network, partition unmount, mapper deactivation, mountpoint removal, in
\* this order.
C4_OrderWithMapperBeforeMountpoint ==
    (Successful /\ bootloader_approach = BOOTLOADER__NONE /\ ~with_openstack) =>
        InOrder(<< "partition_device", "format_partitions",
                   "mount_disk_chroot_mounts", "run_directory_bootstrap",
                   "create_etc_fstab", "create_network_configuration",
                   "unmount_disk_chroot_mounts", "remove_partition_devices",
                   "rmdir_mountpount" >>)

\* C4 as amended: in a successful run with approach none and no cloud
\* support the record holds partition, format, mount, bootstrap, fstab,
\* network, partition unmount, mountpoint removal, mapper deactivation, in
\* this order: the mountpoint is removed before the mapper devices are
\* deactivated.
C4_OrderWithMountpointBeforeMapper ==
    (Successful /\ bootloader_approach = BOOTLOADER__NONE /\ ~with_openstack) =>
        InOrder(<< "partition_device", "format_partitions",
                   "mount_disk_chroot_mounts", "run_directory_bootstrap",
                   "create_etc_fstab", "create_network_configuration",
                   "unmount_disk_chroot_mounts", "rmdir_mountpount",
                   "remove_partition_devices" >>)

\* C4 witness: a successful run with approach none and no cloud support
C4_Witness ==
    /\ Successful
    /\ bootloader_approach = BOOTLOADER__NONE
    /\ ~with_openstack
    /\ Count("remove_partition_devices") = 1

\* the steps run executes only on request
OptionalOps ==
    { "install_bootloader__grub2", "ensure_chroot_has_grub2_installed",
      "generate_grub_cfg_from_inside_chroot", "fix_grub_cfg_root_device",
      "install_sudo", "create_sudo_nopasswd_user", "install_cloud_init_and_friends",
      "configure_cloud_init_and_friends", "install_sshd",
      "make_openstack_services_autostart",
      "copy_chroot_scripts", "run_chroot_scripts", "remove_chroot_scripts" }

\* C5: with approach none, no cloud support and no chroot scripts directory
\* the record never holds an optional step (bootloader install, GRUB
\* configuration and its root= rewrite, the cloud steps, the chroot-script
\* copy, run and removal), on any path; the initramfs steps are what follows
\* the root password step, and a successful run has executed them.
C5_OptionalStepsSkipped ==
    ( /\ bootloader_approach = BOOTLOADER__NONE
      /\ ~with_openstack
      /\ abs_scripts_dir_chroot = None ) =>
        /\ \A i \in 1..Len(log) : log[i].op \notin OptionalOps
        /\ \A i \in 1..(Len(log) - 1) :
              (log[i].op = "set_root_password_inside_chroot" /\ log[i].res = "ok")
                  => log[i + 1].op = "adjust_initramfs_generator_config"
        /\ Successful =>
              /\ Completed("adjust_initramfs_generator_config")
              /\ Completed("generate_initramfs_from_inside_chroot")

\* C5 witness: a successful run with none of the options, the initramfs made
C5_Witness ==
    /\ Successful
    /\ bootloader_approach = BOOTLOADER__NONE
    /\ ~with_openstack
    /\ abs_scripts_dir_chroot = None
    /\ Completed("generate_initramfs_from_inside_chroot")

\* the paths of the bind mounts made, and of the unmounts of their release
BindMountsMade ==
    LET part == SelectSeq(log, LAMBDA e : e.op = "mount" /\ e.res = "ok")
    IN  [i \in 1..Len(part) |-> part[i].arg]

BindUnmountsTried ==
    ArgsBetween("umount", Pos("mount_nondisk_chroot_mounts"),
                Pos("unmount_nondisk_chroot_mounts"))

BindReleaseRan ==
    /\ Completed("mount_nondisk_chroot_mounts")
    /\ Pos("unmount_nondisk_chroot_mounts") > 0

\* C6 as stated: the bind mounts are made in the order dev, dev/pts, proc,
\* sys, and once all four are made their release unmounts all of them in the
\* reverse order, on every path.
C6_AllUnmountedInReverse ==
    /\ IsPrefixSeq(BindMountsMade, NonDiskMountOrder(TmpMountpoint))
    /\ BindReleaseRan =>
          BindUnmountsTried = Reverse(NonDiskMountOrder(TmpMountpoint))

\* C6 as amended: the bind mounts are made in the order dev, dev/pts, proc,
\* sys, and once all four are made their release tries the unmounts in the
\* reverse order sys, proc, dev/pts, dev on every path; it goes through all
\* four unless an unmount raises (command not found), which ends the
\* release at that mount point.
C6_UnmountsTriedInReverse ==
    /\ IsPrefixSeq(BindMountsMade, NonDiskMountOrder(TmpMountpoint))
    /\ BindReleaseRan =>
          /\ IsPrefixSeq(BindUnmountsTried, Reverse(NonDiskMountOrder(TmpMountpoint)))
          /\ BindUnmountsTried # <<>>
          /\ \/ BindUnmountsTried = Reverse(NonDiskMountOrder(TmpMountpoint))
             \/ /\ log[Pos("unmount_nondisk_chroot_mounts")].res = "fail"
                /\ log[Pos("unmount_nondisk_chroot_mounts") - 1].res = "fail"

\* C6 witness: a step after the bind mounts failed and their release went
\* through the four unmounts
C6_Witness ==
    /\ BindReleaseRan
    /\ origin \in { "set_root_password_inside_chroot",
                    "generate_initramfs_from_inside_chroot" }
    /\ Len(BindUnmountsTried) = Len(NON_DISK_MOUNT_TASKS)

\* C7: once the distro's bootstrap has been invoked, whether it returned or
\* raised, the unmount of its leftovers runs exactly once, as the next step,
\* and before the second write of etc/hostname and before the unmount of the
\* first partition.
C7_LeftoversUnmountedOnce ==
    LET hook == Pos("run_directory_bootstrap")
        release == Pos("unmount_directory_bootstrap_leftovers")
    IN  /\ hook = 0 => release = 0
        /\ hook > 0 =>
              IF pc = "unmount_directory_bootstrap_leftovers"
              THEN release = 0
              ELSE /\ Count("unmount_directory_bootstrap_leftovers") = 1
                   /\ hook < release
                   /\ \A i \in (hook + 1)..(release - 1) : log[i].op = "umount"
                   /\ \A i \in 1..Len(log) :
                         log[i].op \in { "create_etc_hostname_2",
                                         "unmount_disk_chroot_mounts" }
                             => release < i

\* C7 witness: the bootstrap raised, the leftovers were unmounted and the
\* partition unmount has run
C7_Witness ==
    /\ origin = "run_directory_bootstrap"
    /\ Count("unmount_directory_bootstrap_leftovers") = 1
    /\ Count("umount") >= 3
    /\ Pos("unmount_disk_chroot_mounts") > 0

\* the paths the release of the bootstrap leftovers tried to unmount
LeftoverUnmountsTried ==
    ArgsBetween("umount", Pos("run_directory_bootstrap"),
                Pos("unmount_directory_bootstrap_leftovers"))

LeftoverReleaseRan == Pos("unmount_directory_bootstrap_leftovers") > 0

\* C8: for every mount table, the release of the bootstrap leftovers unmounts
\* the mount points below the mountpoint deepest first, the reverse of the
\* finder's order: none is unmounted before a mount point nested under it,
\* and none twice.
C8_LeftoversDeepestFirst ==
    LeftoverReleaseRan =>
        LET u == LeftoverUnmountsTried
        IN  \A i, j \in 1..Len(u) :
               i < j => /\ ~IsStrictlyBelow(u[i], u[j])
                        /\ Len(u[i]) >= Len(u[j])
                        /\ u[i] # u[j]

\* C8 witness: the release has unmounted dev/pts and then dev, and sys
C8_Witness ==
    /\ LeftoverReleaseRan
    /\ \E i, j \in 1..Len(LeftoverUnmountsTried) :
          /\ i < j
          /\ LeftoverUnmountsTried[i] = Join(TmpMountpoint, <<"dev", "pts">>)
          /\ LeftoverUnmountsTried[j] = Join(TmpMountpoint, <<"dev">>)
    /\ Join(TmpMountpoint, <<"sys">>) \in Range(LeftoverUnmountsTried)

C10_ApproachConcreteWhenEvaluated ==
    pc \in { "install_bootloader__grub2_host", "ensure_chroot_has_grub2_installed",
             "generate_grub_cfg_from_inside_chroot" }
        => bootloader_approach \in ConcreteApproaches

\* C10 as amended: the bootloader install step is never executed with the
\* approach auto, and the approach changes only in select_bootloader, called
\* before run with a distro set, from auto to what the distro returns: a
\* concrete approach is never changed, and run neither resolves nor changes
\* the approach it is called with.
C10_AutoNeverInstalled ==
    /\ [](\A i \in 1..Len(log) :
             log[i].op = "install_bootloader__grub2"
                 => log[i].arg # << BOOTLOADER__AUTO >>)
    /\ [][ bootloader_approach' # bootloader_approach =>
              /\ pc = "idle" /\ pc' = "idle"
              /\ bootloader_approach = BOOTLOADER__AUTO
              /\ distro # None ]_vars

\* C10 witness: run, called with the approach still auto, has passed both
\* install steps without installing and stands at the GRUB configuration
C10_Witness ==
    /\ pc = "generate_grub_cfg_from_inside_chroot"
    /\ bootloader_approach = BOOTLOADER__AUTO
    /\ Count("install_bootloader__grub2") = 0
    /\ Completed("set_root_password_inside_chroot")

\* C11 as stated: once the bootloader install step has returned or raised,
\* the GRUB device map does not exist, whatever the approach and the outcome
\* of the installer call.
C11_DeviceMapGoneAfterInstall ==
    Count("install_bootloader__grub2") > 0 => ~device_map_exists

\* ------------------------------------------------- the disk identifier step

\* the byte values identifiers are made of
Bytes == { 0, 1, 255 }

\* the byte sequences a disk identifier object can yield
DiskIds == UNION { [1..n -> Bytes] : n \in 1..MaxIdLen }

\* run() at engine.py:735, with any disk identifier or none, the target a
\* scratch file or a block device
InitDiskId ==
    /\ distro = "distro"
    /\ bootloader_approach = BOOTLOADER__NONE
    /\ command_grub2_install = "/opt/grub/sbin/grub-install"
    /\ with_openstack = FALSE
    /\ root_password = GivenRootPassword
    /\ disk_id \in { NoDiskId } \cup { DiskId(content) : content \in DiskIds }
    /\ abs_scripts_dir_chroot = None
    /\ first_partition_uuid = NoUuid
    /\ abs_mountpoint = NoPath
    /\ abs_first_partition_device = NoPath
    /\ mounts = << <<>>, UnrelatedMount >>
    /\ mapper_active = FALSE
    /\ mountpoint_exists = FALSE
    /\ device_map_exists = FALSE
    /\ chroot_scripts = NoChrootScripts
    /\ etc_files = NoEtcFiles
    /\ target \in { ScratchFile, BlockDevice }
    /\ pc = "set_disk_id_in_mbr"
    /\ exc = None
    /\ origin = None
    /\ log = << E("unshare", <<>>, "ok"), E("partition_device", <<>>, "ok") >>
    /\ faults = MaxFaults

NextDiskId == set_disk_id_in_mbr

SpecDiskId == InitDiskId /\ [][NextDiskId]_vars

\* the target as it was before the step
TargetBefore == IF target.block THEN BlockDevice ELSE ScratchFile

DiskIdStepOver == pc # "set_disk_id_in_mbr"

\* C12: a disk identifier whose byte sequence is not exactly 4 bytes long
\* is rejected by the step, which raises, and the target is as it was
\* before: it was neither opened (a scratch file is not truncated) nor
\* written.
C12_WrongLengthRejected ==
    (DiskIdStepOver /\ disk_id.given /\ Len(disk_id.byte_sequence) # DISK_ID_COUNT_BYTES) =>
        /\ target = TargetBefore
        /\ exc = "set_disk_id_in_mbr"
        /\ log[Len(log)] = E("set_disk_id_in_mbr", <<>>, "AssertionError")

\* C12 witness: a 3-byte and then a 5-byte identifier were rejected
C12_Witness ==
    /\ DiskIdStepOver
    /\ disk_id.given
    /\ Len(disk_id.byte_sequence) \in { DISK_ID_COUNT_BYTES - 1, DISK_ID_COUNT_BYTES + 1 }
    /\ exc = "set_disk_id_in_mbr"
    /\ ~target.block

\* C13: after the step has written a 4-byte identifier, reading 4 bytes at
\* offset 440 of the target gives exactly the identifier's bytes, for every
\* identifier; without an identifier the step leaves the target as it was.
C13_DiskIdRoundTrip ==
    (DiskIdStepOver /\ exc = None) =>
        IF ~disk_id.given
        THEN target = TargetBefore
        ELSE /\ Len(disk_id.byte_sequence) = DISK_ID_COUNT_BYTES
             /\ ReadAt(target, DISK_ID_OFFSET, DISK_ID_COUNT_BYTES)
                    = disk_id.byte_sequence

\* C13 witness: an identifier with a zero byte and a non-zero byte was
\* written to the scratch file
C13_Witness ==
    /\ DiskIdStepOver
    /\ exc = None
    /\ disk_id.given
    /\ { 0, 255 } \subseteq Range(disk_id.byte_sequence)
    /\ ~target.block
    /\ ReadAt(target, DISK_ID_OFFSET, DISK_ID_COUNT_BYTES) = disk_id.byte_sequence

\* -------------------------------------------- the first-partition UUID step

\* the UUIDs a caller may supply, well-formed or not: the ones blkid may
\* print, and the canonical one without its dashes and with digits for them
GivenUuids ==
    ({ rstrip(output) : output \in BlkidOutputs } \ { NoUuid })
        \cup { SelectSeq(CanonicalUuid, LAMBDA c : c # "-"),
               [i \in 1..Len(CanonicalUuid) |->
                   IF CanonicalUuid[i] = "-" THEN "0" ELSE CanonicalUuid[i]] }

\* run() at engine.py:740, the partitions formatted, with any UUID supplied
\* or none
InitUuid ==
    /\ distro = "distro"
    /\ bootloader_approach = BOOTLOADER__NONE
    /\ command_grub2_install = "/opt/grub/sbin/grub-install"
    /\ with_openstack = FALSE
    /\ root_password = GivenRootPassword
    /\ disk_id = NoDiskId
    /\ abs_scripts_dir_chroot = None
    /\ first_partition_uuid \in { NoUuid } \cup GivenUuids
    /\ abs_mountpoint = NoPath
    /\ abs_first_partition_device = FirstPartitionDevice
    /\ mounts = << <<>>, UnrelatedMount >>
    /\ mapper_active = TRUE
    /\ mountpoint_exists = FALSE
    /\ device_map_exists = FALSE
    /\ chroot_scripts = NoChrootScripts
    /\ etc_files = NoEtcFiles
    /\ target = ScratchFile
    /\ pc = "first_partition_uuid"
    /\ exc = None
    /\ origin = None
    /\ log = [i \in 1..IndexOf("format_partitions") |-> E(RunOrder[i], <<>>, "ok")]
    /\ faults \in 0..MaxFaults

\* engine.py:740-746 and the finally block of 803-804
NextUuid ==
    \/ set_first_partition_uuid
    \/ gather_first_partition_uuid
    \/ mkdir_mountpount
    \/ remove_partition_devices

SpecUuid == InitUuid /\ [][NextUuid]_vars

UuidStepOver == pc # "first_partition_uuid"

\* C14: the UUID step takes exactly one of two branches.  With a UUID
\* supplied it is stamped and not validated: the step raises no validation
\* error and leaves the UUID as supplied.  Without one the UUID is asked
\* for and validated: what the step keeps is well-formed, and a malformed
\* answer raises a validation error, after which no mountpoint is made and
\* the mapper devices are deactivated before run is left.
C14_UuidBranches ==
    LET stamped == Places("set_first_partition_uuid")
        asked == Places("gather_first_partition_uuid")
    IN  /\ Cardinality(stamped \cup asked) = IF UuidStepOver THEN 1 ELSE 0
        /\ \A i \in stamped :
              /\ log[i].res # "ValueError"
              /\ first_partition_uuid \in GivenUuids
        /\ \A i \in asked :
              /\ log[i].res = "ok" =>
                    /\ Len(first_partition_uuid) = 36
                    /\ Range(first_partition_uuid) \subseteq HexDigits \cup { "-" }
              /\ log[i].res # "ok" =>
                    /\ first_partition_uuid = NoUuid
                    /\ Count("mkdir_mountpount") = 0
                    /\ ~mountpoint_exists
                    /\ \/ pc = "remove_partition_devices"
                       \/ Count("remove_partition_devices") = 1

\* C14 witness: blkid gave a malformed UUID, the step raised the validation
\* error and the mapper devices were deactivated
C14_Witness ==
    /\ \E i \in Places("gather_first_partition_uuid") : log[i].res = "ValueError"
    /\ origin = "first_partition_uuid"
    /\ Completed("remove_partition_devices")
    /\ ~mapper_active
    /\ Done

\* -------------------------------------------------------- the UUID validator

\* distro.py:350-352: the check made of a UUID, as a call of its own: the
\* record holds the call with its argument, and then how it ended
require_valid_uuid ==
    /\ pc = "require_valid_uuid"
    /\ LET uuid == log[Len(log)].arg
       IN  log' = Append(log, E("require_valid_uuid", uuid,
                                IF SANE_UUID_CHECKER(uuid) THEN "ok"
                                ELSE "ValueError"))
    /\ pc' = "returned"
    /\ UNCHANGED << fields, system, exc, origin, faults >>

\* the characters the strings checked are made of
UuidAlphabet == { "0", "9", "a", "f", "-", "A", "F", "g", " ", LF }

\* the strings checked: the canonical UUID with one character replaced,
\* left out or added at the end, without its dashes, with digits for its
\* dashes, in upper case, and the empty string
UuidCandidates ==
    { [CanonicalUuid EXCEPT ![k] = c] : k \in 1..36, c \in UuidAlphabet }
        \cup { SubSeq(CanonicalUuid, 1, k - 1) \o SubSeq(CanonicalUuid, k + 1, 36) :
                 k \in 1..36 }
        \cup { CanonicalUuid \o << c >> : c \in UuidAlphabet }
        \cup { CanonicalUuid \o << c, LF >> : c \in UuidAlphabet }
        \cup GivenUuids
        \cup { NoUuid }

\* a call of the check with any of the strings
InitUuidCheck ==
    /\ distro = None
    /\ bootloader_approach = BOOTLOADER__NONE
    /\ command_grub2_install = "/opt/grub/sbin/grub-install"
    /\ with_openstack = FALSE
    /\ root_password = GivenRootPassword
    /\ disk_id = NoDiskId
    /\ abs_scripts_dir_chroot = None
    /\ first_partition_uuid = NoUuid
    /\ abs_mountpoint = NoPath
    /\ abs_first_partition_device = NoPath
    /\ mounts = << <<>>, UnrelatedMount >>
    /\ mapper_active = FALSE
    /\ mountpoint_exists = FALSE
    /\ device_map_exists = FALSE
    /\ chroot_scripts = NoChrootScripts
    /\ etc_files = NoEtcFiles
    /\ target = ScratchFile
    /\ pc = "require_valid_uuid"
    /\ exc = None
    /\ origin = None
    /\ \E uuid \in UuidCandidates : log = << E("require_valid_uuid", uuid, "called") >>
    /\ faults = MaxFaults

NextUuidCheck == require_valid_uuid

SpecUuidCheck == InitUuidCheck /\ [][NextUuidCheck]_vars

\* the string checked, and whether the check took it
UuidChecked == log[1].arg

UuidAccepted == log[Len(log)].res = "ok"

UuidCheckOver == pc = "returned"

\* the places of the dashes in the canonical shape 8-4-4-4-12
DashPlaces == { 9, 14, 19, 24 }

\* 36 characters, dashes at the four places, lowercase hex digits elsewhere
IsCanonicalShape(uuid) ==
    /\ Len(uuid) = 36
    /\ \A i \in 1..36 :
          IF i \in DashPlaces THEN uuid[i] = "-" ELSE uuid[i] \in HexDigits

HasUppercaseHex(uuid) == \E i \in 1..Len(uuid) : uuid[i] \in { "A", "F" }

MissesDashes(uuid) == \E i \in DashPlaces : i > Len(uuid) \/ uuid[i] # "-"

\* C15 as stated: the check takes every string of the canonical shape and
\* refuses every string that has an uppercase hex digit, a length other
\* than 36, or not its four dashes.
C15_OnlyCanonicalAccepted ==
    UuidCheckOver =>
        /\ IsCanonicalShape(UuidChecked) => UuidAccepted
        /\ ( \/ HasUppercaseHex(UuidChecked)
             \/ Len(UuidChecked) # 36
             \/ MissesDashes(UuidChecked) ) => ~UuidAccepted

\* C15 as amended: the check takes every string of the canonical shape.
\* What it takes has 36 characters (and at most a newline after them), all
\* of them lowercase hex digits or dashes, the first and the last a digit;
\* so it refuses every string with an uppercase hex digit, every string of
\* another length (but 36 characters and a newline), and the 32-digit form
\* without dashes.  It does not ask for the dashes, or for their places.
C15_LowercaseHexOrDashes36 ==
    UuidCheckOver =>
        LET uuid == UuidChecked
            chars == IF uuid # <<>> /\ uuid[Len(uuid)] = LF
                     THEN SubSeq(uuid, 1, Len(uuid) - 1) ELSE uuid
        IN  /\ IsCanonicalShape(uuid) => UuidAccepted
            /\ UuidAccepted =>
                  /\ Len(chars) = 36
                  /\ Range(chars) \subseteq HexDigits \cup { "-" }
                  /\ chars[1] # "-" /\ chars[36] # "-"
            /\ HasUppercaseHex(uuid) => ~UuidAccepted
            /\ Len(uuid) \notin { 36, 37 } => ~UuidAccepted
            /\ (Len(uuid) = 37 /\ uuid[37] # LF) => ~UuidAccepted
            /\ uuid = SelectSeq(CanonicalUuid, LAMBDA c : c # "-") => ~UuidAccepted

\* C15 witness: a string of 36 lowercase hex digits, none of them a dash,
\* was checked and taken
C15_Witness ==
    /\ UuidCheckOver
    /\ Len(UuidChecked) = 36
    /\ Range(UuidChecked) \subseteq HexDigits
    /\ UuidAccepted

\* ------------------------------------------------------- the retrying steps

\* a call of a retrying release on its own: the record holds the call with
\* the outcomes its attempts will meet, and then the number of attempts it
\* made and how it ended ("ok": released; "fail": it raised; "left": it
\* returned with nothing released)
RetryCall(fn, r) ==
    /\ pc = fn
    /\ log' = Append(log, E(fn, << r.attempts >>, UmountResult(r)))
    /\ pc' = "returned"
    /\ UNCHANGED << fields, system, exc, origin, faults >>

\* distro.py:513-526
try_unmounting_call == RetryCall("try_unmounting", try_unmounting(log[1].arg))

\* distro.py:546-562
check_call__keep_trying_call ==
    RetryCall("check_call__keep_trying", check_call__keep_trying(log[1].arg))

\* engine.py:634-644
rmdir_mountpount_call == RetryCall("rmdir_mountpount", RmdirLoop(log[1].arg, 1))

\* every sequence of exit statuses, and of os.rmdir outcomes, of three
\* attempts
AllExitCodes == [1..UnmountTries -> ExitCodes]

AllErrnos == [1..UnmountTries -> { "ok", "EBUSY", "EPERM" }]

RetryCalls ==
    { E(fn, codes, "called") :
        fn \in { "try_unmounting", "check_call__keep_trying" },
        codes \in AllExitCodes }
    \cup { E("rmdir_mountpount", errnos, "called") : errnos \in AllErrnos }

InitRetry ==
    /\ distro = None
    /\ bootloader_approach = BOOTLOADER__NONE
    /\ command_grub2_install = "/opt/grub/sbin/grub-install"
    /\ with_openstack = FALSE
    /\ root_password = GivenRootPassword
    /\ disk_id = NoDiskId
    /\ abs_scripts_dir_chroot = None
    /\ first_partition_uuid = NoUuid
    /\ abs_mountpoint = NoPath
    /\ abs_first_partition_device = NoPath
    /\ mounts = << <<>>, UnrelatedMount >>
    /\ mapper_active = FALSE
    /\ mountpoint_exists = FALSE
    /\ device_map_exists = FALSE
    /\ chroot_scripts = NoChrootScripts
    /\ etc_files = NoEtcFiles
    /\ target = ScratchFile
    /\ \E call \in RetryCalls : log = << call >> /\ pc = call.op
    /\ exc = None
    /\ origin = None
    /\ faults = MaxFaults

NextRetry ==
    \/ try_unmounting_call
    \/ check_call__keep_trying_call
    \/ rmdir_mountpount_call

SpecRetry == InitRetry /\ [][NextRetry]_vars

\* the call made, the outcomes it met, the attempts it made, how it ended
RetryOver == pc = "returned"

RetryFn == log[1].op

RetryOutcomes == log[1].arg

RetryAttempts == log[Len(log)].arg[1]

RetryEnd == log[Len(log)].res

CommandRetries == { "try_unmounting", "check_call__keep_trying" }

\* the attempt at which the outcomes first are of the set bad, 0 if never
RECURSIVE FirstOf(_, _, _)
FirstOf(outcomes, bad, i) ==
    IF i > Len(outcomes) THEN 0
    ELSE IF outcomes[i] \in bad THEN i
    ELSE FirstOf(outcomes, bad, i + 1)

\* C16: an unmount or a mapper deactivation whose command fails twice with
\* a status other than 127 and then succeeds returns without raising, the
\* release done, after 3 attempts; and whatever the statuses, the command
\* is run at most 3 times.
C16_ThirdAttemptSucceeds ==
    (RetryOver /\ RetryFn \in CommandRetries) =>
        /\ RetryAttempts \in 1..UnmountTries
        /\ ( /\ RetryOutcomes[1] \notin { 0, EXIT_COMMAND_NOT_FOUND }
             /\ RetryOutcomes[2] \notin { 0, EXIT_COMMAND_NOT_FOUND }
             /\ RetryOutcomes[3] = 0 ) =>
                 /\ RetryEnd = "ok"
                 /\ RetryAttempts = 3

\* C16 witness: the mapper deactivation failed twice and then succeeded
C16_Witness ==
    /\ RetryOver
    /\ RetryFn = "check_call__keep_trying"
    /\ RetryOutcomes = << 1, 1, 0 >>
    /\ RetryEnd = "ok"

\* C17: in an unmount or a mapper deactivation, when the command ends with
\* status 127 at an attempt the loop gets to (every attempt before it having
\* failed otherwise), the call raises at that attempt and the command is not
\* run again.
C17_NotFoundNeverRetried ==
    (RetryOver /\ RetryFn \in CommandRetries) =>
        LET first127 == FirstOf(RetryOutcomes, { EXIT_COMMAND_NOT_FOUND }, 1)
            first0 == FirstOf(RetryOutcomes, { 0 }, 1)
        IN  /\ (first127 > 0 /\ (first0 = 0 \/ first127 < first0)) =>
                  /\ RetryEnd = "fail"
                  /\ RetryAttempts = first127
            /\ RetryEnd = "fail" => RetryOutcomes[RetryAttempts] = EXIT_COMMAND_NOT_FOUND

\* C17 witness: an unmount failed once and then met status 127
C17_Witness ==
    /\ RetryOver
    /\ RetryFn = "try_unmounting"
    /\ RetryOutcomes = << 1, EXIT_COMMAND_NOT_FOUND, 0 >>
    /\ RetryEnd = "fail"
    /\ RetryAttempts = 2

\* C18 as stated: a retrying release whose three attempts all fail with a
\* condition it retries on (device busy; a status other than 127) ends in
\* an error: it raises.
C18_ExhaustedRetriesRaise ==
    ( /\ RetryOver
      /\ \A i \in 1..UnmountTries :
            IF RetryFn = "rmdir_mountpount" THEN RetryOutcomes[i] = "EBUSY"
            ELSE RetryOutcomes[i] \notin { 0, EXIT_COMMAND_NOT_FOUND } ) =>
        RetryEnd = "fail"

\* C19: the mountpoint removal makes at most 3 attempts; it makes another
\* attempt only after one that failed with EBUSY; a failure with another
\* error raises at the attempt where it occurs; and a successful attempt
\* is the last one.
C19_RmdirRetriesOnlyOnBusy ==
    (RetryOver /\ RetryFn = "rmdir_mountpount") =>
        /\ RetryAttempts \in 1..UnmountTries
        /\ \A i \in 1..(RetryAttempts - 1) : RetryOutcomes[i] = "EBUSY"
        /\ RetryOutcomes[RetryAttempts] = "ok" => RetryEnd = "ok"
        /\ RetryOutcomes[RetryAttempts] = "EPERM" => RetryEnd = "fail"
        /\ RetryOutcomes[RetryAttempts] = "EBUSY" => RetryAttempts = UnmountTries
        /\ RetryEnd = "fail" => RetryOutcomes[RetryAttempts] = "EPERM"
        /\ RetryEnd = "ok" => RetryOutcomes[RetryAttempts] = "ok"

\* C19 witness: the removal met EBUSY, then another error, and raised at
\* the second attempt
C19_Witness ==
    /\ RetryOver
    /\ RetryFn = "rmdir_mountpount"
    /\ RetryOutcomes = << "EBUSY", "EPERM", "ok" >>
    /\ RetryAttempts = 2
    /\ RetryEnd = "fail"

\* ---------------------------------------------------------- the script runner

\* engine.py:417-423, as a call of its own: the record holds the call with
\* the names os.listdir gives, then every script executed and how it ended,
\* and then how the call ended; a script that fails ends the loop
run_scripts_from ==
    /\ pc = "run_scripts_from"
    /\ LET scripts == ScriptsToRun(log[1].arg)
       IN  \/ /\ log' = log \o [i \in 1..Len(scripts) |-> E("script", scripts[i], "ok")]
                          \o << E("run_scripts_from", <<>>, "ok") >>
              /\ UNCHANGED << exc, origin, faults >>
           \/ /\ faults > 0
              /\ \E k \in 1..Len(scripts) :
                    log' = log \o [i \in 1..k |->
                                     E("script", scripts[i],
                                       IF i < k THEN "ok" ELSE "fail")]
                               \o << E("run_scripts_from", <<>>, "fail") >>
              /\ exc' = "run_scripts_from"
              /\ origin' = "run_scripts_from"
              /\ faults' = faults - 1
    /\ pc' = "returned"
    /\ UNCHANGED << fields, system >>

\* the names found in scripts directories: a.sh, .hidden, b.sh~, c.sh and
\* others that begin or end with '.', '~' or a letter
ScriptNames ==
    { << "a", ".", "s", "h" >>,
      << ".", "h", "i", "d", "d", "e", "n" >>,
      << "b", ".", "s", "h", "~" >>,
      << "c", ".", "s", "h" >>,
      << "~" >>,
      << ".", "a", "~" >>,
      << "a" >>,
      << "a", "a" >>,
      << "a", "~" >>,
      << "B" >>,
      << "~", "a" >>,
      << "a", "." >> }

Listings == { names \in SUBSET ScriptNames : Cardinality(names) <= MaxDirSize }

InitScripts ==
    /\ distro = None
    /\ bootloader_approach = BOOTLOADER__NONE
    /\ command_grub2_install = "/opt/grub/sbin/grub-install"
    /\ with_openstack = FALSE
    /\ root_password = GivenRootPassword
    /\ disk_id = NoDiskId
    /\ abs_scripts_dir_chroot = None
    /\ first_partition_uuid = NoUuid
    /\ abs_mountpoint = NoPath
    /\ abs_first_partition_device = NoPath
    /\ mounts = << <<>>, UnrelatedMount >>
    /\ mapper_active = FALSE
    /\ mountpoint_exists = FALSE
    /\ device_map_exists = FALSE
    /\ chroot_scripts = NoChrootScripts
    /\ etc_files = NoEtcFiles
    /\ target = ScratchFile
    /\ pc = "run_scripts_from"
    /\ exc = None
    /\ origin = None
    /\ \E listing \in Listings : log = << E("run_scripts_from", listing, "called") >>
    /\ faults = MaxFaults

NextScripts == run_scripts_from

SpecScripts == InitScripts /\ [][NextScripts]_vars

ScriptsOver == pc = "returned"

\* the names os.listdir gave, and the scripts executed, in order
Listed == log[1].arg

Executed ==
    LET part == SelectSeq(log, LAMBDA e : e.op = "script")
    IN  [i \in 1..Len(part) |-> part[i].arg]

Eligible == { n \in Listed : n[1] # "." /\ n[Len(n)] # "~" }

\* C20: for every directory content the runner executes only entries whose
\* name neither starts with '.' nor ends with '~', none twice, in
\* lexicographic order of name, and all of them when every script
\* succeeds; a script that fails is the last one executed, the eligible
\* entries before it in the order having been executed.
C20_EligibleScriptsInOrder ==
    ScriptsOver =>
        LET run == Executed
        IN  /\ Range(run) \subseteq Eligible
            /\ \A i, j \in 1..Len(run) : i < j => StrLess(run[i], run[j])
            /\ log[Len(log)].res = "ok" => Range(run) = Eligible
            /\ log[Len(log)].res = "fail" =>
                  /\ run # <<>>
                  /\ \A n \in Eligible :
                        StrLess(n, run[Len(run)]) => n \in Range(run)

\* C20 witness: of a.sh, .hidden, b.sh~ and c.sh, a.sh and then c.sh were
\* executed
C20_Witness ==
    /\ ScriptsOver
    /\ Listed = { << "a", ".", "s", "h" >>, << ".", "h", "i", "d", "d", "e", "n" >>,
                  << "b", ".", "s", "h", "~" >>, << "c", ".", "s", "h" >> }
    /\ Executed = << << "a", ".", "s", "h" >>, << "c", ".", "s", "h" >> >>

\* ------------------------------------------------- a script that fails in run

\* the script steps of run that go through _run_scripts_from
ScriptSteps == { "run_pre_scripts", "run_post_scripts" }

\* the place in the record of the script step that failed, 0 if none did
FailedScriptStep ==
    IF \E i \in 1..Len(log) : log[i].op \in ScriptSteps /\ log[i].res = "fail"
    THEN CHOOSE i \in 1..Len(log) : log[i].op \in ScriptSteps /\ log[i].res = "fail"
    ELSE 0

\* the operations of the record after place i, in order
OpsAfter(i) == [j \in 1..(Len(log) - i) |-> log[i + j].op]

\* C21: when a script run by the script runner returns non-zero and run is
\* left, no script of the directory that sorts after the failing one was
\* executed, no forward step of run was executed after the script step, and
\* the releases of the enclosing levels were each executed, in the order
\* partition unmount, mountpoint removal, mapper deactivation; after a
\* pre-chroot script failed the bind mounts were never made and their
\* release was not run.
C21_FailingScriptAbortsRun ==
    (Done /\ origin \in ScriptSteps) =>
        LET at == FailedScriptStep
            executed == log[at].arg.run
            failed == log[at].arg.failed
            later == SelectSeq(OpsAfter(at), LAMBDA op : op # "umount")
        IN  /\ at > 0
            /\ log[at].op = origin
            /\ failed \in Range(executed)
            /\ \A i \in 1..Len(executed) : ~StrLess(failed, executed[i])
            /\ later = << "unmount_disk_chroot_mounts", "rmdir_mountpount",
                          "remove_partition_devices" >>
            /\ origin = "run_pre_scripts" =>
                  /\ Count("mount") = 0
                  /\ Count("unmount_nondisk_chroot_mounts") = 0

\* C21 witness: the first pre-chroot script, a.sh, failed; c.sh was not
\* executed and run was left after the three releases
C21_Witness ==
    /\ Done
    /\ origin = "run_pre_scripts"
    /\ log[FailedScriptStep].arg.failed = << "a", ".", "s", "h" >>
    /\ Count("remove_partition_devices") = 1

\* ------------------------------------------------- the scripts' environment

\* the names of environment variables: the ones make_environment deals
\* with, and two it does not
EnvNames ==
    { "LANG", "LANGUAGE", "LC_ALL", "HOSTNAME", "IB_HOSTNAME", "IB_ROOT",
      "MNTPOINT", "PATH", "TERM" }

\* self._hostname (engine.py:84); a value of the environment is the sequence
\* of its words, as a path is
Hostname == << "machine" >>

\* values the process environment has for its variables
EnvValues == { << "inherited" >>, << "C" >>, Hostname }

\* the environments a process can have: a value for each of some names
Environments ==
    UNION { [names -> EnvValues] :
              names \in { n \in SUBSET EnvNames : Cardinality(n) <= MaxEnvVars } }

\* dict.pop(key, None)
Pop(env, key) == [k \in DOMAIN env \ { key } |-> env[k]]

\* dict.update(new)
Update(env, new) ==
    [k \in DOMAIN env \cup DOMAIN new |->
        IF k \in DOMAIN new THEN new[k] ELSE env[k]]

\* an environment that keeps the locale of the process
make_environment_keeping_locale(environ, hostname, mountpoint, tell_mountpoint) ==
    LET env == Update(environ, [HOSTNAME |-> hostname, IB_HOSTNAME |-> hostname,
                                LC_ALL |-> << "C" >>])
    IN  IF tell_mountpoint
        THEN Update(env, [IB_ROOT |-> mountpoint, MNTPOINT |-> mountpoint])
        ELSE env

\* engine.py:425-439, for the process environment environ, self._hostname
\* and self._abs_mountpoint
make_environment(environ, hostname, mountpoint, tell_mountpoint) ==
    LET copy == environ
        popped == Pop(Pop(copy, "LANG"), "LANGUAGE")
        env == Update(popped, [HOSTNAME |-> hostname, IB_HOSTNAME |-> hostname,
                               LC_ALL |-> << "C" >>])
    IN  IF tell_mountpoint
        THEN Update(env, [IB_ROOT |-> mountpoint, MNTPOINT |-> mountpoint])
        ELSE env

\* engine.py:425-439, as a call of its own: the record holds the call with
\* the process environment and tell_mountpoint, and then what it returns
make_environment_call ==
    /\ pc = "make_environment"
    /\ log' = Append(log, E("make_environment", <<>>,
                            make_environment(log[1].arg.environ, Hostname,
                                             abs_mountpoint,
                                             log[1].arg.tell_mountpoint)))
    /\ pc' = "returned"
    /\ UNCHANGED << fields, system, exc, origin, faults >>

\* a call of make_environment in a run that has made its mountpoint
InitEnv ==
    /\ distro = None
    /\ bootloader_approach = BOOTLOADER__NONE
    /\ command_grub2_install = "/opt/grub/sbin/grub-install"
    /\ with_openstack = FALSE
    /\ root_password = GivenRootPassword
    /\ disk_id = NoDiskId
    /\ abs_scripts_dir_chroot = None
    /\ first_partition_uuid = CanonicalUuid
    /\ abs_mountpoint = TmpMountpoint
    /\ abs_first_partition_device = FirstPartitionDevice
    /\ mounts = << <<>>, UnrelatedMount, TmpMountpoint >>
    /\ mapper_active = TRUE
    /\ mountpoint_exists = TRUE
    /\ device_map_exists = FALSE
    /\ chroot_scripts = NoChrootScripts
    /\ etc_files = NoEtcFiles
    /\ target = ScratchFile
    /\ pc = "make_environment"
    /\ exc = None
    /\ origin = None
    /\ \E environ \in Environments, tell_mountpoint \in BOOLEAN :
          log = << E("make_environment",
                     [environ |-> environ, tell_mountpoint |-> tell_mountpoint],
                     "called") >>
    /\ faults = MaxFaults

NextEnv == make_environment_call

SpecEnv == InitEnv /\ [][NextEnv]_vars

EnvOver == pc = "returned" /\ log[1].op = "make_environment"

\* the variables make_environment sets or removes in a call
EnvNamesSet(tell_mountpoint) ==
    { "LANG", "LANGUAGE", "LC_ALL", "HOSTNAME", "IB_HOSTNAME" }
        \cup ( IF tell_mountpoint THEN { "IB_ROOT", "MNTPOINT" } ELSE {} )

\* env has the variable name with this value
Has(env, name, value) == name \in DOMAIN env /\ env[name] = value

\* C22: for every process environment, the environment make_environment
\* builds has no LANG and no LANGUAGE, has LC_ALL=C, has HOSTNAME and
\* IB_HOSTNAME equal to the hostname, has IB_ROOT and MNTPOINT both equal to
\* the mountpoint exactly when tell_mountpoint is set, and has every other
\* variable of the process environment, with its value, and no more.
C22_EnvironmentBuilt ==
    EnvOver =>
        LET environ == log[1].arg.environ
            tell_mountpoint == log[1].arg.tell_mountpoint
            env == log[2].res
            others == EnvNames \ EnvNamesSet(tell_mountpoint)
        IN  /\ "LANG" \notin DOMAIN env
            /\ "LANGUAGE" \notin DOMAIN env
            /\ Has(env, "LC_ALL", << "C" >>)
            /\ Has(env, "HOSTNAME", Hostname)
            /\ Has(env, "IB_HOSTNAME", Hostname)
            /\ tell_mountpoint <=> ( /\ Has(env, "IB_ROOT", abs_mountpoint)
                                     /\ Has(env, "MNTPOINT", abs_mountpoint) )
            /\ \A name \in others :
                  /\ name \in DOMAIN env <=> name \in DOMAIN environ
                  /\ name \in DOMAIN environ => env[name] = environ[name]

\* C22 witness: a process with LANG, IB_ROOT and PATH asks for an
\* environment without the mountpoint, and gets one with its IB_ROOT and PATH
C22_Witness ==
    /\ EnvOver
    /\ ~log[1].arg.tell_mountpoint
    /\ DOMAIN log[1].arg.environ = { "LANG", "IB_ROOT", "PATH" }
    /\ DOMAIN log[2].res = { "IB_ROOT", "PATH", "LC_ALL", "HOSTNAME", "IB_HOSTNAME" }

\* ------------------------------------------- the environment handed to scripts

\* the loops that execute scripts: _run_scripts_from and _run_chroot_scripts
\* of BootstrapEngine (engine.py:417-423, 569-581) and of
\* BootstrapDistroAgnostic (distro.py:382-388, 479-491)
ScriptRunners ==
    { "BootstrapEngine._run_scripts_from",
      "BootstrapEngine._run_chroot_scripts",
      "BootstrapDistroAgnostic._run_scripts_from",
      "BootstrapDistroAgnostic._run_chroot_scripts" }

\* the loops of BootstrapEngine
OfEngine(runner) ==
    runner \in { "BootstrapEngine._run_scripts_from",
                 "BootstrapEngine._run_chroot_scripts" }

\* engine.py:423 and 581 pass env=env.copy(); distro.py:388 and 491 pass
\* env=env, the mapping itself
HandsCopy(runner) == OfEngine(runner)

\* engine.py:443, 617 and distro.py:405, 539: tell_mountpoint=True for the
\* pre-chroot and post-chroot scripts; engine.py:571, distro.py:481: False
TellsMountpoint(runner) ==
    runner \in { "BootstrapEngine._run_scripts_from",
                 "BootstrapDistroAgnostic._run_scripts_from" }

\* what the callee may do with the mapping it is handed
CalleeChanges == { "nothing", "sets IB_ROOT" }

ChangedBy(env, change) ==
    IF change = "nothing" THEN env
    ELSE Update(env, [IB_ROOT |-> << "changed" >>])

\* the mapping env of the loop after a call that was handed it: a change of
\* the callee is made to the copy, or to env itself where no copy is made
EnvAfterCall(runner, env, change) ==
    IF HandsCopy(runner) THEN env ELSE ChangedBy(env, change)

\* distro.py:390-401, _make_script_environment of BootstrapDistroAgnostic
make_script_environment_agnostic(environ, hostname, mountpoint, tell_mountpoint) ==
    LET env == Update(environ, [HOSTNAME |-> hostname, IB_HOSTNAME |-> hostname])
    IN  IF tell_mountpoint
        THEN Update(env, [IB_ROOT |-> mountpoint, MNTPOINT |-> mountpoint])
        ELSE env

\* the process environments of the script loops
ScriptEnvirons ==
    { environ \in Environments : DOMAIN environ \subseteq { "LANG", "IB_ROOT", "PATH" } }

\* engine.py:443, 571, 617 (distro.py:405, 481, 539): the loop builds its
\* environment from a copy of os.environ, which stays as it is
make_script_environment ==
    /\ pc = "make_script_environment"
    /\ LET environ == log[1].arg.environ
           runner == log[1].arg.runner
           env == IF OfEngine(runner)
                  THEN make_environment(environ, Hostname, abs_mountpoint,
                                        TellsMountpoint(runner))
                  ELSE make_script_environment_agnostic(
                           environ, Hostname, abs_mountpoint,
                           TellsMountpoint(runner))
       IN  log' = Append(log, E("make_environment", <<>>,
                                [env |-> env, environ |-> environ]))
    /\ pc' = "check_call"
    /\ UNCHANGED << fields, system, exc, origin, faults >>

\* the scripts the loop has executed so far
ScriptCalls == SelectSeq(log, LAMBDA e : e.op = "check_call")

\* engine.py:423, 581 (distro.py:388, 491): the next script is executed with
\* the environment of the loop, or a copy of it; the record gets the
\* mapping handed over, as it is at the call, and the mapping of the loop
\* and the process environment as they are after the call
check_call_script ==
    /\ pc = "check_call"
    /\ LET scripts == ScriptsToRun(ScriptsDirListing)
           k == Len(ScriptCalls) + 1
           runner == log[1].arg.runner
           last == log[Len(log)].res
       IN  \E change \in CalleeChanges :
              /\ log' = Append(log,
                               E("check_call", scripts[k],
                                 [handed |-> last.env,
                                  env |-> EnvAfterCall(runner, last.env, change),
                                  environ |-> last.environ]))
              /\ pc' = IF k = Len(scripts) THEN "returned" ELSE "check_call"
    /\ UNCHANGED << fields, system, exc, origin, faults >>

\* a script loop of a run that has made its mountpoint
InitEnvCopies ==
    /\ distro = None
    /\ bootloader_approach = BOOTLOADER__NONE
    /\ command_grub2_install = "/opt/grub/sbin/grub-install"
    /\ with_openstack = FALSE
    /\ root_password = GivenRootPassword
    /\ disk_id = NoDiskId
    /\ abs_scripts_dir_chroot = "/scripts/chroot"
    /\ first_partition_uuid = CanonicalUuid
    /\ abs_mountpoint = TmpMountpoint
    /\ abs_first_partition_device = FirstPartitionDevice
    /\ mounts = << <<>>, UnrelatedMount, TmpMountpoint >>
    /\ mapper_active = TRUE
    /\ mountpoint_exists = TRUE
    /\ device_map_exists = FALSE
    /\ chroot_scripts = NoChrootScripts
    /\ etc_files = NoEtcFiles
    /\ target = ScratchFile
    /\ pc = "make_script_environment"
    /\ exc = None
    /\ origin = None
    /\ \E environ \in ScriptEnvirons, runner \in ScriptRunners :
          log = << E("run_scripts", [environ |-> environ, runner |-> runner],
                     "called") >>
    /\ faults = MaxFaults

NextEnvCopies == make_script_environment \/ check_call_script

SpecEnvCopies == InitEnvCopies /\ [][NextEnvCopies]_vars

\* C23 as stated: every script invocation is handed the environment as it
\* was built, whatever an earlier invocation did with the one it was
\* handed, and the process environment stays as it was.
C23_EveryInvocationGetsEnvironmentAsBuilt ==
    \A i \in 1..Len(log) :
        log[i].op = "check_call" =>
            /\ log[i].res.handed = log[2].res.env
            /\ log[i].res.environ = log[1].arg.environ

\* ------------------------------------------- the scripts directories' permissions

\* stat.S_IWGRP and stat.S_IWOTH, the bits of st_mode engine.py:221 tests
S_IWGRP == 16

S_IWOTH == 2

\* mode has the bit set
HasBit(mode, bit) == (mode \div bit) % 2 = 1

\* the permission bits of a directory: 0755, 0775, 0757
DirModes == { 493, 509, 495 }

\* the users that own things: root, and two others
Uids == { 0, 1000, 1001 }

\* os.geteuid() of a run as root
Euid == 0

Digits == << "0", "1", "2", "3", "4", "5", "6", "7", "8", "9" >>

\* int(s) raises ValueError
IsNoInt(s) == s = <<>> \/ \E i \in 1..Len(s) : s[i] \notin Range(Digits)

\* int(s) for a string of digits
RECURSIVE int(_)
int(s) ==
    IF s = <<>> THEN 0
    ELSE 10 * int(SubSeq(s, 1, Len(s) - 1))
           + (CHOOSE d \in 0..9 : Digits[d + 1] = s[Len(s)])

\* what os.environ has for SUDO_UID: nothing, a user, or no number
NoSudoUid == [given |-> FALSE, value |-> <<>>]

SudoUids ==
    { NoSudoUid,
      [given |-> TRUE, value |-> << "1", "0", "0", "0" >>],
      [given |-> TRUE, value |-> << "a", "b" >>] }

\* engine.py:194-201
GoodUids(euid, sudo_uid) ==
    { euid } \cup ( IF sudo_uid.given /\ ~IsNoInt(sudo_uid.value)
                    THEN { int(sudo_uid.value) }
                    ELSE {} )

\* the entries of scripts directories: all executable but for files the
\* runner skips; an eligible one not executable; none
DirEntries ==
    { { [name |-> << "a", ".", "s", "h" >>, executable |-> TRUE],
        [name |-> << ".", "h", "i", "d", "d", "e", "n" >>, executable |-> FALSE],
        [name |-> << "b", ".", "s", "h", "~" >>, executable |-> FALSE] },
      { [name |-> << "a", ".", "s", "h" >>, executable |-> TRUE],
        [name |-> << "c", ".", "s", "h" >>, executable |-> FALSE] },
      {} }

\* a scripts directory that was not supplied (None)
NoScriptsDir == [given |-> FALSE]

\* what os.lstat, os.listdir and os.access tell of a path supplied as a
\* scripts directory: a symlink, a regular file, or a directory
ScriptsDirs ==
    { [given |-> TRUE, kind |-> kind, mode |-> 493, uid |-> Euid, entries |-> {}] :
         kind \in { "symlink", "file" } }
    \cup
    { [given |-> TRUE, kind |-> "dir", mode |-> mode, uid |-> uid,
       entries |-> entries] :
         mode \in DirModes, uid \in Uids, entries \in DirEntries }

\* a check of the write bit of others only
WritableToOthersOnly(mode) == HasBit(mode, S_IWOTH)

\* engine.py:221: props.st_mode & (stat.S_IWGRP | stat.S_IWOTH)
WritableToNonOwner(mode) == HasBit(mode, S_IWGRP) \/ HasBit(mode, S_IWOTH)

\* engine.py:231-237: an entry the runner would execute is not executable
HasScriptNotExecutable(entries) ==
    \E entry \in entries :
        script_should_be_run(entry.name) /\ ~entry.executable

\* engine.py:208-237, the body of the loop for one directory: the error it
\* raises, or "ok"
CheckedScriptsDir(dir, good_uids) ==
    IF ~dir.given THEN "ok"
    ELSE IF dir.kind = "symlink" THEN "ENOTDIR"
    ELSE IF dir.kind # "dir" THEN "ENOTDIR"
    ELSE IF WritableToNonOwner(dir.mode) THEN "EPERM"
    ELSE IF dir.uid \notin good_uids THEN "EPERM"
    ELSE IF HasScriptNotExecutable(dir.entries) THEN "EACCES"
    ELSE "ok"

\* engine.py:191-240 for the directories dirs (pre-chroot, chroot,
\* post-chroot), from the i-th on: the first error raised, or "ok"
RECURSIVE CheckedScriptsDirs(_, _, _)
CheckedScriptsDirs(dirs, i, good_uids) ==
    IF i > Len(dirs) THEN "ok"
    ELSE IF CheckedScriptsDir(dirs[i], good_uids) # "ok"
    THEN CheckedScriptsDir(dirs[i], good_uids)
    ELSE CheckedScriptsDirs(dirs, i + 1, good_uids)

\* engine.py:191-240, as a call of its own: the record holds the call with
\* the three directories and SUDO_UID, and then how it ended
check_script_permissions_call ==
    /\ pc = "check_script_permissions"
    /\ LET res == CheckedScriptsDirs(log[1].arg.dirs, 1,
                                     GoodUids(Euid, log[1].arg.sudo_uid))
       IN  /\ log' = Append(log, E("check_script_permissions", <<>>, res))
           /\ exc' = IF res = "ok" THEN exc ELSE "check_script_permissions"
           /\ origin' = IF res = "ok" THEN origin ELSE "check_script_permissions"
    /\ pc' = "returned"
    /\ UNCHANGED << fields, system, faults >>

InitPerms ==
    /\ distro = None
    /\ bootloader_approach = BOOTLOADER__NONE
    /\ command_grub2_install = "/opt/grub/sbin/grub-install"
    /\ with_openstack = FALSE
    /\ root_password = GivenRootPassword
    /\ disk_id = NoDiskId
    /\ abs_scripts_dir_chroot = None
    /\ first_partition_uuid = NoUuid
    /\ abs_mountpoint = NoPath
    /\ abs_first_partition_device = NoPath
    /\ mounts = << <<>>, UnrelatedMount >>
    /\ mapper_active = FALSE
    /\ mountpoint_exists = FALSE
    /\ device_map_exists = FALSE
    /\ chroot_scripts = NoChrootScripts
    /\ etc_files = NoEtcFiles
    /\ target = BlockDevice
    /\ pc = "check_script_permissions"
    /\ exc = None
    /\ origin = None
    /\ \E pre, chroot, post \in ScriptsDirs \cup { NoScriptsDir },
          sudo_uid \in SudoUids :
          log = << E("check_script_permissions",
                     [dirs |-> << pre, chroot, post >>, sudo_uid |-> sudo_uid],
                     "called") >>
    /\ faults = MaxFaults

NextPerms == check_script_permissions_call

SpecPerms == InitPerms /\ [][NextPerms]_vars

PermsOver == pc = "returned" /\ log[1].op = "check_script_permissions"

\* the directory is one the contract of scripts directories refuses: a
\* symlink, no directory, writable to group or others, owned by neither the
\* effective user nor the user of SUDO_UID, or holding an entry that is not
\* executable and whose name neither starts with '.' nor ends with '~'
Refused(dir, sudo_uid) ==
    \/ dir.kind = "symlink"
    \/ dir.kind # "dir"
    \/ dir.mode \in { 509, 495 }
    \/ /\ dir.uid # Euid
       /\ ~(sudo_uid.given /\ ~IsNoInt(sudo_uid.value) /\ dir.uid = int(sudo_uid.value))
    \/ \E entry \in dir.entries :
          /\ ~entry.executable
          /\ entry.name[1] # "."
          /\ entry.name[Len(entry.name)] # "~"

\* C25: check_script_permissions raises an error if a supplied scripts
\* directory is a symlink, is not a directory, is writable to group or
\* others, is owned by neither the effective user nor the sudo-original
\* user, or holds an eligible entry that is not executable; it succeeds
\* if no supplied directory is any of these; directories not supplied are
\* skipped.
C25_ScriptPermissionsFailClosed ==
    PermsOver =>
        LET dirs == log[1].arg.dirs
            supplied == { i \in 1..Len(dirs) : dirs[i].given }
            res == log[2].res
        IN  /\ res \in { "ok", "ENOTDIR", "EPERM", "EACCES" }
            /\ res = "ok" <=>
                  \A i \in supplied : ~Refused(dirs[i], log[1].arg.sudo_uid)
            /\ res # "ok" => exc = "check_script_permissions"

\* C25 witness: the pre-chroot directory is fine, none is supplied for the
\* chroot, and the post-chroot directory is writable to its group: refused
C25_Witness ==
    /\ PermsOver
    /\ log[1].arg.dirs[1].given
    /\ ~Refused(log[1].arg.dirs[1], log[1].arg.sudo_uid)
    /\ ~log[1].arg.dirs[2].given
    /\ log[1].arg.dirs[3].given
    /\ log[1].arg.dirs[3].mode = 509
    /\ log[2].res = "EPERM"

\* ------------------------------------------------- the checks made before run

\* commands get_commands_to_check_for names (engine.py:110-128): one by its
\* name, to be found in PATH, and one by its path
COMMAND_PARTED == "parted"

CommandsToCheckFor == { COMMAND_PARTED, "/opt/grub/sbin/grub-install" }

\* command.startswith('/'), distro.py:147
IsAbsolute(command) == command = "/opt/grub/sbin/grub-install"

\* distro.py:141-170, check_for_commands on a host that has the commands
\* and files of present: the error raised, or "ok"
CheckedCommands(present) ==
    LET missing_files == { c \in CommandsToCheckFor \ present : IsAbsolute(c) }
        missing_commands == { c \in CommandsToCheckFor \ present : ~IsAbsolute(c) }
    IN  IF missing_files # {} THEN "ENOENT"
        ELSE IF missing_commands # {} THEN "EXIT_COMMAND_NOT_FOUND"
        ELSE "ok"

\* a check that takes every file for a block device
S_ISBLK_of_any_file(file) == TRUE

\* engine.py:175-176: stat.S_ISBLK(os.stat(path).st_mode)
S_ISBLK(file) == file.block

\* a public method the caller invokes before run, once at most: the record
\* gets how it ended; what it raises goes to the caller, and nothing of the
\* engine or the system is changed
CheckAs(op, res) ==
    /\ pc = "idle"
    /\ Count(op) = 0
    /\ log' = Append(log, E(op, <<>>, res))
    /\ UNCHANGED << fields, system, pc, exc, origin, faults >>

\* engine.py:170-171, with get_commands_to_check_for of the distro
\* (engine.py:110-111): without a distro the call raises AttributeError
check_for_commands ==
    CheckAs("check_for_commands",
            IF distro = None THEN "AttributeError"
            ELSE CheckedCommands(log[1].arg.present))

\* engine.py:173-177
check_target_block_device ==
    CheckAs("check_target_block_device",
            IF S_ISBLK(target) THEN "ok" ELSE "ENOTBLK")

\* engine.py:191-240
check_script_permissions ==
    CheckAs("check_script_permissions",
            CheckedScriptsDirs(log[1].arg.dirs, 1,
                               GoodUids(Euid, log[1].arg.sudo_uid)))

\* a scripts directory that passes, and one writable to its group
GoodScriptsDir ==
    [given |-> TRUE, kind |-> "dir", mode |-> 493, uid |-> Euid,
     entries |-> { [name |-> << "a", ".", "s", "h" >>, executable |-> TRUE] }]

GroupWritableScriptsDir ==
    [given |-> TRUE, kind |-> "dir", mode |-> 509, uid |-> Euid,
     entries |-> { [name |-> << "a", ".", "s", "h" >>, executable |-> TRUE] }]

\* an engine just constructed, on a host with some of the commands, for a
\* target that is a block device or a regular file
InitChecks ==
    /\ distro = None
    /\ bootloader_approach = BOOTLOADER__NONE
    /\ command_grub2_install = "/opt/grub/sbin/grub-install"
    /\ with_openstack = FALSE
    /\ root_password = GivenRootPassword
    /\ disk_id = NoDiskId
    /\ abs_scripts_dir_chroot = None
    /\ first_partition_uuid = NoUuid
    /\ abs_mountpoint = NoPath
    /\ abs_first_partition_device = NoPath
    /\ mounts = << <<>>, UnrelatedMount >>
    /\ mapper_active = FALSE
    /\ mountpoint_exists = FALSE
    /\ device_map_exists = FALSE
    /\ chroot_scripts = NoChrootScripts
    /\ etc_files = NoEtcFiles
    /\ target \in { ScratchFile, BlockDevice }
    /\ pc = "idle"
    /\ exc = None
    /\ origin = None
    /\ \E present \in SUBSET CommandsToCheckFor,
          dirs \in { << GoodScriptsDir, NoScriptsDir, GoodScriptsDir >>,
                     << GoodScriptsDir, NoScriptsDir, GroupWritableScriptsDir >>,
                     << NoScriptsDir, NoScriptsDir, NoScriptsDir >> } :
          log = << E("host", [present |-> present, dirs |-> dirs,
                              sudo_uid |-> NoSudoUid], "given") >>
    /\ faults = MaxFaults

\* the public methods in any order, and run as far as its first acquisition
NextChecks ==
    \/ set_distro
    \/ check_for_commands
    \/ check_target_block_device
    \/ check_script_permissions
    \/ unshare
    \/ partition_device
    \/ set_disk_id_in_mbr
    \/ create_partition_devices

SpecChecks == InitChecks /\ [][NextChecks]_vars

\* the checks the caller is to make before run
Checks ==
    { "check_for_commands", "check_target_block_device",
      "check_script_permissions" }

\* the check has been made and has passed
Passed(check) == \E i \in 1..Len(log) : log[i] = E(check, <<>>, "ok")

\* how the check ended that has been made
ResultOf(check) == log[Pos(check)].res

\* run has been started
RunStarted == Count("unshare") > 0

\* C24 as stated: in every sequence of engine operations run issues no
\* partitioning or later command unless the block-device check, the
\* scripts-directory check and the command check have all passed.
C24_NoCommandUnlessChecksPassed ==
    Count("partition_device") > 0 => \A check \in Checks : Passed(check)

\* C24 as amended: a check acquires nothing, so that nothing is to be
\* released when it raises; the block-device check raises ENOTBLK exactly
\* for a target that is no block special file, the scripts-directory check
\* raises exactly if a supplied directory is refused, the command check
\* raises exactly if a command or file is missing or no distro is set; hence
\* a run started after the three checks have passed partitions a block
\* device, with the commands at hand and no scripts directory refused.
C24_ChecksAcquireNothingAndGuardRun ==
    LET host == log[1].arg
    IN  /\ ~RunStarted =>
              /\ ~mapper_active
              /\ ~mountpoint_exists
              /\ mounts = << <<>>, UnrelatedMount >>
              /\ abs_first_partition_device = NoPath
              /\ abs_mountpoint = NoPath
              /\ pc = "idle"
        /\ Count("check_target_block_device") > 0 =>
              ( ResultOf("check_target_block_device") = "ENOTBLK"
                    <=> target \notin { BlockDevice } )
        /\ Count("check_target_block_device") > 0 =>
              ResultOf("check_target_block_device") \in { "ok", "ENOTBLK" }
        /\ Count("check_script_permissions") > 0 =>
              ( ResultOf("check_script_permissions") = "ok"
                    <=> \A i \in 1..3 :
                          host.dirs[i].given => ~Refused(host.dirs[i], host.sudo_uid) )
        /\ Count("check_for_commands") > 0 =>
              ( ResultOf("check_for_commands") = "ok"
                    => host.present = CommandsToCheckFor )
        /\ ( Count("partition_device") > 0 /\ \A check \in Checks : Passed(check) ) =>
              /\ target = BlockDevice
              /\ host.present = CommandsToCheckFor
              /\ \A i \in 1..3 : host.dirs[i] # GroupWritableScriptsDir

\* C24 witness: the three checks have passed and run has partitioned the
\* block device
C24_Witness ==
    /\ \A check \in Checks : Passed(check)
    /\ Completed("partition_device")
    /\ target = BlockDevice

\* --------------------------------------------------- the chroot scripts copied

\* C26 as stated: when run is left, nothing is left of root/chroot-scripts
\* in the image: neither the directory nor a script copied into it,
\* whether the copying, a script or nothing failed.
C26_ChrootScriptsRemoved ==
    Done => chroot_scripts = NoChrootScripts

\* ------------------------------------------------ the place of the installer

\* the operation op has completed before place i of the record
CompletedBefore(op, i) == \E j \in 1..(i - 1) : log[j].op = op /\ log[j].res = "ok"

\* the bind mounts that are active after the first n entries of the
\* record: mounted and not unmounted since
BindMountsActiveAt(n) ==
    { log[j].arg : j \in { j \in 1..n :
        /\ log[j].op = "mount"
        /\ log[j].res = "ok"
        /\ \A k \in (j + 1)..n :
              ~(log[k].op = "umount" /\ log[k].arg = log[j].arg /\ log[k].res = "ok") } }

\* C27: in any run the bootloader install step is executed at most once;
\* with a host variant it is executed after the pre-chroot scripts have run
\* and before any bind mount is made; with a chroot variant it is executed
\* while all four bind mounts are active, after the root-password step and
\* after the step that ensures GRUB is installed in the chroot; with the
\* approach none it is never executed.
C27_InstallerOnceAtItsPlace ==
    LET places == Places("install_bootloader__grub2")
    IN  /\ Cardinality(places) <= 1
        /\ bootloader_approach = BOOTLOADER__NONE => places = {}
        /\ \A i \in places :
              /\ log[i].arg = << bootloader_approach >>
              /\ bootloader_approach
                    \in { BOOTLOADER__HOST_GRUB2__DEVICE, BOOTLOADER__HOST_GRUB2__DRIVE }
                  => /\ CompletedBefore("run_pre_scripts", i)
                     /\ \A j \in 1..Len(log) : log[j].op = "mount" => i < j
              /\ bootloader_approach
                    \in { BOOTLOADER__CHROOT_GRUB2__DEVICE, BOOTLOADER__CHROOT_GRUB2__DRIVE }
                  => /\ BindMountsActiveAt(i) = Range(NonDiskMountOrder(abs_mountpoint))
                     /\ Cardinality(BindMountsActiveAt(i)) = 4
                     /\ CompletedBefore("set_root_password_inside_chroot", i)
                     /\ CompletedBefore("ensure_chroot_has_grub2_installed", i)
              /\ bootloader_approach
                    \in { BOOTLOADER__HOST_GRUB2__DEVICE, BOOTLOADER__HOST_GRUB2__DRIVE,
                          BOOTLOADER__CHROOT_GRUB2__DEVICE,
                          BOOTLOADER__CHROOT_GRUB2__DRIVE }

\* C27 witness: a run with a chroot variant has executed the install step,
\* and has been left
C27_Witness ==
    /\ Done
    /\ bootloader_approach = BOOTLOADER__CHROOT_GRUB2__DRIVE
    /\ Completed("install_bootloader__grub2")
    /\ Count("mount") = 4

\* ---------------------------------------------- waiting for the device file

\* engine.py:736, with a device file that comes and goes as it likes
create_partition_devices_late ==
    create_partition_devices_given([1..DevicePolls -> { "yes", "no" }])

\* a run that has partitioned its target
InitPoll ==
    /\ distro = "distro"
    /\ bootloader_approach = BOOTLOADER__NONE
    /\ command_grub2_install = "/opt/grub/sbin/grub-install"
    /\ with_openstack = FALSE
    /\ root_password = GivenRootPassword
    /\ disk_id = NoDiskId
    /\ abs_scripts_dir_chroot = None
    /\ first_partition_uuid \in { NoUuid, CanonicalUuid }
    /\ abs_mountpoint = NoPath
    /\ abs_first_partition_device = NoPath
    /\ mounts = << <<>>, UnrelatedMount >>
    /\ mapper_active = FALSE
    /\ mountpoint_exists = FALSE
    /\ device_map_exists = FALSE
    /\ chroot_scripts = NoChrootScripts
    /\ etc_files = NoEtcFiles
    /\ target = ScratchFile
    /\ pc = "create_partition_devices"
    /\ exc = None
    /\ origin = None
    /\ log = [i \in 1..IndexOf("set_disk_id_in_mbr") |-> E(RunOrder[i], <<>>, "ok")]
    /\ faults \in 1..MaxFaults

\* engine.py:736-746 and the finally block of 803-804
NextPoll ==
    \/ create_partition_devices_late
    \/ format_partitions
    \/ set_first_partition_uuid
    \/ gather_first_partition_uuid
    \/ mkdir_mountpount
    \/ remove_partition_devices

SpecPoll == InitPoll /\ [][NextPoll]_vars

\* what the polls of the record found, in order
Polls ==
    LET part == SelectSeq(log, LAMBDA e : e.op = "exists")
    IN  [i \in 1..Len(part) |-> part[i].res]

\* C28: after the mapper-activation command has succeeded the device file
\* is polled 3 times at most; if it is there at a poll the step succeeds,
\* with no poll after that one; if it is there at none of the polls the
\* step fails with ENOENT, and neither formatting nor mounting nor any
\* later forward step is executed: run is left with that step the last.
C28_DevicePolledThreeTimes ==
    Polls # <<>> =>
        LET at == Pos("create_partition_devices")
        IN  /\ at > 0
            /\ Len(Polls) <= 3
            /\ \A i \in 1..(Len(Polls) - 1) : Polls[i] = "no"
            /\ Polls[Len(Polls)] = "yes" => log[at].res = "ok"
            /\ Polls[Len(Polls)] = "no" =>
                  /\ Len(Polls) = 3
                  /\ log[at].res = "ENOENT"
                  /\ at = Len(log)
                  /\ pc = "done"
                  /\ exc = "create_partition_devices"

\* C28 witness: the device file is there at the third poll only, and the
\* partition has been formatted
C28_Witness ==
    /\ Polls = << "no", "no", "yes" >>
    /\ Completed("create_partition_devices")
    /\ Completed("format_partitions")

\* ------------------------------------------------ a bind mount that fails

\* the places of the record where the bind-mount step failed after it had
\* made a bind mount
FailedBindMountSteps ==
    { i \in Places("mount_nondisk_chroot_mounts") :
        /\ log[i].res = "fail"
        /\ \E j \in 1..(i - 1) : log[j].op = "mount" /\ log[j].res = "ok" }

\* C29: if the bind-mount step fails at the i-th of its four mounts, i > 1,
\* every bind mount the step had made is unmounted before run raises, and
\* the unmount of the first partition that follows is not attempted while
\* a bind mount of this run is active below the mountpoint.
C29_BindMountsUndoneAfterFailedMount ==
    \A i \in FailedBindMountSteps :
        /\ Done => BindMountsActiveAt(Len(log)) = {}
        /\ \A j \in (i + 1)..Len(log) :
              log[j].op = "umount" /\ log[j].arg = abs_mountpoint
                  => BindMountsActiveAt(j - 1) = {}

\* ------------------------------------------------ a release that fails

\* engine.py:737-804: the finally blocks of the try statements around the
\* finally block of a release, innermost first
EnclosingReleases(release) ==
    CASE release = "remove_chroot_scripts"
            -> << "unmount_nondisk_chroot_mounts", "unmount_disk_chroot_mounts",
                  "rmdir_mountpount", "remove_partition_devices" >>
      [] release \in { "unmount_directory_bootstrap_leftovers",
                       "unmount_nondisk_chroot_mounts" }
            -> << "unmount_disk_chroot_mounts", "rmdir_mountpount",
                  "remove_partition_devices" >>
      [] release = "unmount_disk_chroot_mounts"
            -> << "rmdir_mountpount", "remove_partition_devices" >>
      [] release = "rmdir_mountpount"
            -> << "remove_partition_devices" >>
      [] OTHER
            -> <<>>

\* the releases of the record, in the order of their execution
ReleasesExecuted == SelectSeq(log, LAMBDA e : e.op \in Releases)

\* C30: a release that raises does not abort the teardown: when run is
\* over, for every release that raised (bootstrap-leftover unmount,
\* chroot-script removal, bind-mount unmount, partition unmount, mountpoint
\* removal) each release of an enclosing level has been executed exactly
\* once, after it and in the order of the levels, and the mapper
\* deactivation is the last release executed.
C30_FailedReleaseDoesNotAbortTeardown ==
    Done =>
        LET rel == ReleasesExecuted
        IN  /\ \A i \in 1..Len(rel) :
                  rel[i].res = "fail" =>
                      LET outer == EnclosingReleases(rel[i].op)
                      IN  /\ Len(rel) = i + Len(outer)
                          /\ \A k \in 1..Len(outer) : rel[i + k].op = outer[k]
            /\ \A i, j \in 1..Len(rel) : rel[i].op = rel[j].op => i = j
            /\ rel # <<>> => rel[Len(rel)].op = "remove_partition_devices"

\* C30 witness: the removal of the chroot scripts and the unmount of the
\* bind mounts both raised, and the mapper devices were deactivated
C30_Witness ==
    /\ Done
    /\ \E i \in Places("remove_chroot_scripts") : log[i].res = "fail"
    /\ \E i \in Places("unmount_nondisk_chroot_mounts") : log[i].res = "fail"
    /\ Completed("unmount_disk_chroot_mounts")
    /\ Completed("rmdir_mountpount")
    /\ Completed("remove_partition_devices")
    /\ ~mapper_active

\* ------------------------------------------------ run() of a prepared engine

\* the engine when run is called: constructed (engine.py:55-96), with a
\* distro set or not (98-99), the approach as given or as select_bootloader
\* left it (104-108)
InitRun ==
    /\ distro \in { None, "distro" }
    /\ bootloader_approach \in BootloaderApproaches
    /\ command_grub2_install = "/opt/grub/sbin/grub-install"
    /\ with_openstack \in BOOLEAN
    /\ root_password = GivenRootPassword
    /\ disk_id = NoDiskId
    /\ abs_scripts_dir_chroot \in { None, "/scripts/chroot" }
    /\ first_partition_uuid \in { NoUuid, CanonicalUuid }
    /\ abs_mountpoint = NoPath
    /\ abs_first_partition_device = NoPath
    /\ mounts = << <<>>, UnrelatedMount >>
    /\ mapper_active = FALSE
    /\ mountpoint_exists = FALSE
    /\ device_map_exists = FALSE
    /\ chroot_scripts = NoChrootScripts
    /\ etc_files = NoEtcFiles
    /\ target = ScratchFile
    /\ pc = "idle"
    /\ exc = None
    /\ origin = None
    /\ log = <<>>
    /\ faults = MaxFaults

\* engine.py:732-804
NextRun ==
    \/ unshare
    \/ partition_device
    \/ set_disk_id_in_mbr
    \/ create_partition_devices
    \/ format_partitions
    \/ set_first_partition_uuid
    \/ gather_first_partition_uuid
    \/ mkdir_mountpount
    \/ mount_disk_chroot_mounts
    \/ mkdir_mountpount_etc
    \/ create_etc_hostname
    \/ create_etc_resolv_conf
    \/ run_directory_bootstrap
    \/ unmount_directory_bootstrap_leftovers
    \/ create_etc_fstab
    \/ create_network_configuration
    \/ run_pre_scripts
    \/ install_bootloader__grub2_host
    \/ mount_nondisk_chroot_mounts
    \/ set_root_password_inside_chroot
    \/ ensure_chroot_has_grub2_installed
    \/ install_bootloader__grub2_chroot
    \/ generate_grub_cfg_from_inside_chroot
    \/ fix_grub_cfg_root_device
    \/ adjust_initramfs_generator_config
    \/ generate_initramfs_from_inside_chroot
    \/ install_sudo
    \/ create_sudo_nopasswd_user
    \/ install_cloud_init_and_friends
    \/ configure_cloud_init_and_friends
    \/ install_sshd
    \/ make_openstack_services_autostart
    \/ copy_chroot_scripts
    \/ run_chroot_scripts
    \/ remove_chroot_scripts
    \/ unmount_nondisk_chroot_mounts
    \/ perform_post_chroot_clean_up
    \/ run_post_scripts
    \/ unmount_disk_chroot_mounts
    \/ rmdir_mountpount
    \/ remove_partition_devices

SpecRun == InitRun /\ [][NextRun]_vars

\* ------------------------------------------ the files the bootstrap replaces

\* engine.py:757-761: the statements of run between the release of the
\* bootstrap leftovers and the host installer
PostBootstrapSteps ==
    << "create_etc_hostname_2", "create_etc_resolv_conf_2", "create_etc_fstab",
       "create_network_configuration", "run_pre_scripts" >>

EtcWrites ==
    { "create_etc_hostname_1", "create_etc_resolv_conf_1",
      "create_etc_hostname_2", "create_etc_resolv_conf_2" }

\* the part of the record between the making of etc and the host installer
EtcRecord ==
    SelectSeq(log, LAMBDA e : e.op \in EtcWrites \cup Range(PostBootstrapSteps)
                                \cup { "run_directory_bootstrap",
                                       "unmount_directory_bootstrap_leftovers" })

NoPasswordFile == [given |-> FALSE]

\* password files, as the lines f.read().split('\n') gives: a password and
\* a line feed, an empty file, two lines
PasswordFiles ==
    { [given |-> TRUE, lines |-> << GivenRootPassword, "" >>],
      [given |-> TRUE, lines |-> << "" >>],
      [given |-> TRUE, lines |-> << "other", "second", "" >>] }

\* engine.py:660-667: the password after process_root_password
ProcessedRootPassword(password, file) ==
    IF file.given THEN file.lines[1] ELSE password

\* engine.py:659-667, called before run
process_root_password ==
    /\ pc = "idle"
    /\ \E file \in PasswordFiles \cup { NoPasswordFile } :
          root_password' = ProcessedRootPassword(root_password, file)
    /\ UNCHANGED << distro, bootloader_approach, command_grub2_install,
                    with_openstack, disk_id, abs_scripts_dir_chroot,
                    first_partition_uuid, abs_mountpoint,
                    abs_first_partition_device, system, control >>

\* an engine made with a root password or without one, for an image
\* without bootloader, with one installed from the host, or with one
\* installed from the chroot, cloud support and chroot scripts
InitPassword ==
    /\ distro = "distro"
    /\ \/ /\ bootloader_approach = BOOTLOADER__NONE
          /\ with_openstack = FALSE
          /\ abs_scripts_dir_chroot = None
          /\ first_partition_uuid = NoUuid
       \/ /\ bootloader_approach = BOOTLOADER__HOST_GRUB2__DEVICE
          /\ with_openstack = FALSE
          /\ abs_scripts_dir_chroot = None
          /\ first_partition_uuid = CanonicalUuid
       \/ /\ bootloader_approach = BOOTLOADER__CHROOT_GRUB2__DRIVE
          /\ with_openstack = TRUE
          /\ abs_scripts_dir_chroot = "/scripts/chroot"
          /\ first_partition_uuid = CanonicalUuid
    /\ command_grub2_install = "/opt/grub/sbin/grub-install"
    /\ root_password \in { None, GivenRootPassword }
    /\ disk_id = NoDiskId
    /\ abs_mountpoint = NoPath
    /\ abs_first_partition_device = NoPath
    /\ mounts = << <<>>, UnrelatedMount >>
    /\ mapper_active = FALSE
    /\ mountpoint_exists = FALSE
    /\ device_map_exists = FALSE
    /\ chroot_scripts = NoChrootScripts
    /\ etc_files = NoEtcFiles
    /\ target = ScratchFile
    /\ pc = "idle"
    /\ exc = None
    /\ origin = None
    /\ log = <<>>
    /\ faults = MaxFaults

NextPassword ==
    \/ process_root_password
    \/ unshare
    \/ partition_device
    \/ set_disk_id_in_mbr
    \/ create_partition_devices
    \/ format_partitions
    \/ set_first_partition_uuid
    \/ gather_first_partition_uuid
    \/ mkdir_mountpount
    \/ mount_disk_chroot_mounts
    \/ mkdir_mountpount_etc
    \/ create_etc_hostname
    \/ create_etc_resolv_conf
    \/ run_directory_bootstrap
    \/ unmount_directory_bootstrap_leftovers
    \/ create_etc_fstab
    \/ create_network_configuration
    \/ run_pre_scripts
    \/ install_bootloader__grub2_host
    \/ mount_nondisk_chroot_mounts
    \/ set_root_password_inside_chroot
    \/ ensure_chroot_has_grub2_installed
    \/ install_bootloader__grub2_chroot
    \/ generate_grub_cfg_from_inside_chroot
    \/ fix_grub_cfg_root_device
    \/ adjust_initramfs_generator_config
    \/ generate_initramfs_from_inside_chroot
    \/ install_sudo
    \/ create_sudo_nopasswd_user
    \/ install_cloud_init_and_friends
    \/ configure_cloud_init_and_friends
    \/ install_sshd
    \/ make_openstack_services_autostart
    \/ copy_chroot_scripts
    \/ run_chroot_scripts
    \/ remove_chroot_scripts
    \/ unmount_nondisk_chroot_mounts
    \/ perform_post_chroot_clean_up
    \/ run_post_scripts
    \/ unmount_disk_chroot_mounts
    \/ rmdir_mountpount
    \/ remove_partition_devices

SpecPassword == InitPassword /\ [][NextPassword]_vars

\* the place of the root-password step in the record, 0 if it has not run
PasswordStep == Pos("set_root_password_inside_chroot")

\* C32: chpasswd is started in the root-password step exactly when the
\* root password is not None then, and only with all four bind mounts
\* active; if it exits with a non-zero status the step fails and, when run
\* is over, no forward step has run after it and the releases of the bind
\* mounts, the partition mount, the mountpoint and the mapper devices have
\* each run once, in this order; if every release of the run succeeded none
\* of the four is left.
C32_ChpasswdOnlyWithPassword ==
    PasswordStep > 0 =>
        LET i == PasswordStep
            after == SubSeq(log, i + 1, Len(log))
            releases == SelectSeq(after, LAMBDA e : e.op # "umount")
        IN  /\ log[i].arg = << "chpasswd" >> <=> root_password # None
            /\ log[i].arg = << "chpasswd" >> =>
                  /\ BindMountsActiveAt(i) = Range(NonDiskMountOrder(abs_mountpoint))
                  /\ Cardinality(BindMountsActiveAt(i)) = 4
            /\ log[i].res = "fail" => log[i].arg = << "chpasswd" >>
            /\ (log[i].res = "fail" /\ Done) =>
                  /\ [k \in 1..Len(releases) |-> releases[k].op]
                        = << "unmount_nondisk_chroot_mounts",
                             "unmount_disk_chroot_mounts", "rmdir_mountpount",
                             "remove_partition_devices" >>
                  /\ (\A k \in 1..Len(log) :
                         log[k].op \in Releases \cup { "umount" } => log[k].res = "ok") =>
                        /\ \A path \in Range(mounts) :
                              ~IsPrefixSeq(abs_mountpoint, path)
                        /\ ~mountpoint_exists
                        /\ ~mapper_active

\* C32 witness: chpasswd exited with a non-zero status and run is over, the
\* releases done
C32_Witness ==
    /\ Done
    /\ origin = "set_root_password_inside_chroot"
    /\ \A k \in 1..Len(log) :
          log[k].op \in Releases \cup { "umount" } => log[k].res = "ok"
    /\ ~mapper_active

\* ------------------------------------------------- the post-chroot steps

\* the places of the record where a post-chroot step is
PostChrootPlaces ==
    Places("perform_post_chroot_clean_up") \cup Places("run_post_scripts")

\* C33: the post-chroot cleanup hook and then the post-chroot scripts run
\* only after all bind mounts have been released successfully and while
\* the first partition is still mounted at the mountpoint; they are
\* skipped whenever an earlier forward step or the release of the bind
\* mounts failed.
C33_PostChrootStepsAfterBindRelease ==
    \A i \in PostChrootPlaces :
        /\ CompletedBefore("mount_nondisk_chroot_mounts", i)
        /\ CompletedBefore("unmount_nondisk_chroot_mounts", i)
        /\ BindMountsActiveAt(i) = {}
        /\ CompletedBefore("mount_disk_chroot_mounts", i)
        /\ \A j \in 1..(i - 1) :
              /\ ~(log[j].op = "umount" /\ log[j].arg = abs_mountpoint)
              /\ log[j].op \in ForwardSteps => log[j].res = "ok"
        /\ log[i].op = "run_post_scripts" =>
              CompletedBefore("perform_post_chroot_clean_up", i)

\* ------------------------------------------------------ the runtime state

\* the UUID step has completed: the UUID given was set, or one was found
UuidResolved ==
    \E i \in 1..Len(log) :
        /\ log[i].op \in { "set_first_partition_uuid", "gather_first_partition_uuid" }
        /\ log[i].res = "ok"

\* C34: the mountpoint and the first-partition device path are None when
\* the engine is made and are set in the order of acquisition: the device
\* path is set by the time the UUID step runs, and the UUID is resolved, to
\* a non-empty value, before the mountpoint is set; in every reachable
\* state a set mountpoint implies a resolved UUID and a set device path.
C34_RuntimeStateSetInOrder ==
    /\ log = <<>> => abs_mountpoint = NoPath /\ abs_first_partition_device = NoPath
    /\ abs_first_partition_device # NoPath =>
          /\ abs_first_partition_device = FirstPartitionDevice
          /\ Pos("create_partition_devices") > 0
    /\ (\E i \in 1..Len(log) :
            log[i].op \in { "set_first_partition_uuid", "gather_first_partition_uuid" })
          => abs_first_partition_device # NoPath
    /\ abs_mountpoint # NoPath =>
          /\ abs_mountpoint = TmpMountpoint
          /\ UuidResolved
          /\ first_partition_uuid # NoUuid
          /\ abs_first_partition_device # NoPath

\* C34 witness: the UUID was found by asking for it and the mountpoint is set
C34_Witness ==
    /\ abs_mountpoint # NoPath
    /\ abs_first_partition_device # NoPath
    /\ \E i \in 1..Len(log) : log[i] = E("gather_first_partition_uuid", <<>>, "ok")
    /\ first_partition_uuid = CanonicalUuid

\* ------------------------------------------------- the UUID in the image

\* C35: the UUID written into etc/fstab and the UUID put into the root=
\* argument of boot/grub/grub.cfg are the UUID resolved in the UUID step,
\* the one given or else the one found, hence the same; and no step
\* changes the UUID once it is resolved.
C35_OneUuidInFstabAndGrubCfg ==
    [][ /\ UuidResolved => first_partition_uuid' = first_partition_uuid
        /\ \A i \in (Len(log) + 1)..Len(log') :
              /\ log'[i].op = "create_etc_fstab" =>
                    /\ UuidResolved
                    /\ first_partition_uuid # NoUuid
                    /\ log'[i].arg[2] = first_partition_uuid
              /\ log'[i].op = "fix_grub_cfg_root_device" =>
                    /\ UuidResolved
                    /\ \E j \in 1..Len(log) :
                          /\ log[j].op = "create_etc_fstab"
                          /\ log[j].arg[2] = first_partition_uuid
                    /\ log'[i].arg = << "root=UUID=", first_partition_uuid >> ]_vars

\* C35 witness: the UUID was found by asking for it, and etc/fstab was
\* written and grub.cfg post-processed with it
C35_Witness ==
    /\ \E i \in 1..Len(log) : log[i] = E("gather_first_partition_uuid", <<>>, "ok")
    /\ Completed("create_etc_fstab")
    /\ Completed("fix_grub_cfg_root_device")
    /\ first_partition_uuid = CanonicalUuid

\* ------------------------------------------ the frame of the identifier write

\* the offsets of the bytes the disk identifier takes
DiskIdOffsets == DISK_ID_OFFSET..(DISK_ID_OFFSET + DISK_ID_COUNT_BYTES - 1)

\* the offsets looked at: every one up to the end of the sector the
\* identifier is in, and the last one of the target
OffsetsCompared == (0..511) \cup { TargetBefore.size - 1 }

\* C36: the write of the disk identifier changes only the 4 bytes at the
\* offsets 440..443 of the target: every other byte of the target, and the
\* length of the target, are after the step what they were before it.
C36_OnlyFourBytesChanged ==
    (DiskIdStepOver /\ exc = None /\ disk_id.given) =>
        /\ target.size = TargetBefore.size
        /\ \A offset \in OffsetsCompared \ DiskIdOffsets :
              ByteAt(target, offset) = ByteAt(TargetBefore, offset)

\* ------------------------------------------------------------ termination

\* engine.py:732-804, with a device file that comes and goes as it likes
NextRunFair ==
    \/ unshare
    \/ partition_device
    \/ set_disk_id_in_mbr
    \/ create_partition_devices_late
    \/ format_partitions
    \/ set_first_partition_uuid
    \/ gather_first_partition_uuid
    \/ mkdir_mountpount
    \/ mount_disk_chroot_mounts
    \/ mkdir_mountpount_etc
    \/ create_etc_hostname
    \/ create_etc_resolv_conf
    \/ run_directory_bootstrap
    \/ unmount_directory_bootstrap_leftovers
    \/ create_etc_fstab
    \/ create_network_configuration
    \/ run_pre_scripts
    \/ install_bootloader__grub2_host
    \/ mount_nondisk_chroot_mounts
    \/ set_root_password_inside_chroot
    \/ ensure_chroot_has_grub2_installed
    \/ install_bootloader__grub2_chroot
    \/ generate_grub_cfg_from_inside_chroot
    \/ fix_grub_cfg_root_device
    \/ adjust_initramfs_generator_config
    \/ generate_initramfs_from_inside_chroot
    \/ install_sudo
    \/ create_sudo_nopasswd_user
    \/ install_cloud_init_and_friends
    \/ configure_cloud_init_and_friends
    \/ install_sshd
    \/ make_openstack_services_autostart
    \/ copy_chroot_scripts
    \/ run_chroot_scripts
    \/ remove_chroot_scripts
    \/ unmount_nondisk_chroot_mounts
    \/ perform_post_chroot_clean_up
    \/ run_post_scripts
    \/ unmount_disk_chroot_mounts
    \/ rmdir_mountpount
    \/ remove_partition_devices

\* run of an engine of one of three configurations with a root password,
\* every command and every hook it calls returning: no statement is waited
\* for for ever
InitRunFair == root_password = GivenRootPassword /\ InitPassword

SpecRunFair == InitRunFair /\ [][NextRunFair]_vars /\ WF_vars(NextRunFair)

\* no statement of run is in the record twice
TraversedOnce ==
    \A i, j \in 1..Len(log) :
        (log[i].op \in Steps /\ log[i].op = log[j].op) => i = j

\* C37: run always terminates, by returning or by raising, provided every
\* external command and hook returns: the statements of run are gone
\* through once, none twice, and the wait for the device file polls 3
\* times at most.
C37_RunTerminates ==
    /\ <>Done
    /\ [](TraversedOnce /\ Len(Polls) <= 3)

\* C37 witness: run is over after a wait of three polls for the device
\* file, a release that was tried three times and a step that raised
C37_Witness ==
    /\ Done
    /\ Polls = << "no", "no", "yes" >>
    /\ \E i \in 1..Len(log) : log[i].op = "umount" /\ log[i].res = "left"
    /\ exc # None

\* ------------------------------------------- the installer command of run

\* distro.py:114-139, detect_grub2_install of the distro-agnostic
\* bootstrapper, called for its command field; the call is put on the record
\* and ends the behaviour of that object
distro_detect_grub2_install ==
    /\ pc = "idle"
    /\ log = <<>>
    /\ \E found \in SUBSET { "grub2-install", "grub-install" }, legacy \in BOOLEAN :
          LET raises == DistroDetectionRaises(command_grub2_install, found, legacy)
          IN  /\ command_grub2_install' =
                    DistroDetectedCommand(command_grub2_install, found)
              /\ exc' = IF raises THEN "ValueError" ELSE exc
              /\ origin' = IF raises THEN "distro.detect_grub2_install" ELSE origin
              /\ log' = Append(log,
                               E("distro.detect_grub2_install",
                                 [ before |-> command_grub2_install,
                                   found |-> found,
                                   legacy |-> legacy,
                                   after |-> command_grub2_install' ],
                                 IF raises THEN "ValueError" ELSE "ok"))
    /\ pc' = "returned"
    /\ UNCHANGED << distro, bootloader_approach, with_openstack, root_password, disk_id,
                    abs_scripts_dir_chroot, first_partition_uuid, abs_mountpoint,
                    abs_first_partition_device, system, faults >>

\* an engine with a distro set, with any approach and with no command, the
\* empty command or a command given, without or (for one of these) with
\* OpenStack support, chroot scripts and a UUID to find; nothing fails by
\* itself
InitSetup ==
    /\ distro = "distro"
    /\ bootloader_approach \in BootloaderApproaches
    /\ command_grub2_install \in { None, "", "/opt/grub/sbin/grub-install" }
    /\ \/ /\ with_openstack = FALSE
          /\ abs_scripts_dir_chroot = None
          /\ first_partition_uuid = CanonicalUuid
       \/ /\ bootloader_approach = BOOTLOADER__AUTO
          /\ command_grub2_install = None
          /\ with_openstack = TRUE
          /\ abs_scripts_dir_chroot = "/scripts/chroot"
          /\ first_partition_uuid = NoUuid
    /\ root_password = GivenRootPassword
    /\ disk_id = NoDiskId
    /\ abs_mountpoint = NoPath
    /\ abs_first_partition_device = NoPath
    /\ mounts = << <<>>, UnrelatedMount >>
    /\ mapper_active = FALSE
    /\ mountpoint_exists = FALSE
    /\ device_map_exists = FALSE
    /\ chroot_scripts = NoChrootScripts
    /\ etc_files = NoEtcFiles
    /\ target = ScratchFile
    /\ pc = "idle"
    /\ exc = None
    /\ origin = None
    /\ log = <<>>
    /\ faults = 0

\* select_bootloader and detect_grub2_install, each called once at most and
\* in either order, then run
NextSetup ==
    \/ select_bootloader_once(TRUE)
    \/ detect_grub2_install_once(TRUE)
    \/ distro_detect_grub2_install
    \/ NextRun

SpecSetup == InitSetup /\ [][NextSetup]_vars

\* the install step was executed with a host variant
HostInstalls ==
    { i \in Places("install_bootloader__grub2") : InstallsFromHost(log[i].arg[1]) }

DetectionAsSpecified(after, res, found, legacy) ==
    /\ after = IF "grub2-install" \in found THEN "grub2-install"
               ELSE "grub-install"
    /\ res = IF /\ "grub2-install" \notin found
                /\ "grub-install" \in found
                /\ legacy
             THEN "ValueError" ELSE "ok"

\* C39: detect_grub2_install leaves a given command as it is and returns;
\* the engine's leaves the command as it is and returns when the approach is
\* not a host variant; otherwise, with no command given (None or the empty
\* string), it selects grub2-install when the search finds it and
\* grub-install when not; it raises ValueError exactly when the grub-install
\* it selected was found and reports GRUB legacy, and returns without error
\* when neither is found, grub-install selected.  The detection of
\* distro.py does the same with no approach to look at.  The command field
\* is what the call selected.
C39_DetectionSelectsCommand ==
    /\ \A j \in Places("detect_grub2_install") :
          LET a == log[j].arg
          IN  /\ GivenCommand(a.before) => a.after = a.before /\ log[j].res = "ok"
              /\ ~InstallsFromHost(a.approach)
                    => a.after = a.before /\ log[j].res = "ok"
              /\ ~GivenCommand(a.before) /\ InstallsFromHost(a.approach)
                    => DetectionAsSpecified(a.after, log[j].res,
                                            a.found, a.legacy)
              /\ a.found = {} => log[j].res = "ok"
    /\ \A j \in Places("distro.detect_grub2_install") :
          LET a == log[j].arg
          IN  /\ GivenCommand(a.before) => a.after = a.before /\ log[j].res = "ok"
              /\ ~GivenCommand(a.before)
                    => DetectionAsSpecified(a.after, log[j].res,
                                            a.found, a.legacy)
              /\ a.found = {} => log[j].res = "ok"
    /\ Len(log) > 0 /\ log[Len(log)].op \in { "detect_grub2_install",
                                              "distro.detect_grub2_install" }
          => /\ command_grub2_install = log[Len(log)].arg.after
             /\ exc = "ValueError" <=> log[Len(log)].res = "ValueError"

\* C39 witness: the engine's detection, for a host variant and with no
\* command given, found a grub-install of GRUB legacy only and raised
C39_Witness ==
    /\ Len(log) > 0
    /\ log[Len(log)].op = "detect_grub2_install"
    /\ log[Len(log)].arg.before = None
    /\ log[Len(log)].arg.approach = BOOTLOADER__HOST_GRUB2__DEVICE
    /\ log[Len(log)].arg.found = { "grub-install" }
    /\ log[Len(log)].arg.legacy
    /\ log[Len(log)].res = "ValueError"
    /\ command_grub2_install = "grub-install"
    /\ exc = "ValueError"

\* ------------------------------------------- Gentoo: installing packages

\* gentoo.py:171, 232, 268: package lists _install_package_atoms is called
\* with
PackageLists ==
    { << "sys-boot/grub:2" >>, << "sys-kernel/dracut" >>,
      << "app-emulation/cloud-init", "net-misc/openssh" >> }

\* gentoo.py:145-146
EmergeSettings == [DONT_MOUNT_BOOT |-> << "1" >>, MAKEOPTS |-> << "-j2" >>]

\* what dict.update returns: None, the mapping being changed in place
DictUpdateReturn(env, new) == None

\* gentoo.py:148-162
EmergeArgv(mountpoint, packages, reinstall) ==
    << "chroot", mountpoint, "env", "FEATURES=-news", "emerge",
       "--ignore-default-opts", "--tree", "--verbose", "--verbose-conflicts",
       "--jobs", "2" >>
      \o ( IF reinstall THEN <<>> ELSE << "--update", "--changed-use" >> )
      \o packages

\* gentoo.py:143-164, as a call of its own: the record holds the call with
\* the mapping create_chroot_env returns, the packages and reinstall, and
\* then the executor call with its argv, the env handed to it, and the
\* mapping create_chroot_env returned as it is after line 144
install_package_atoms ==
    /\ pc = "install_package_atoms"
    /\ LET call == log[1].arg
           env == DictUpdateReturn(call.chroot_env, EmergeSettings)
       IN  log' = Append(log,
                         E("check_call",
                           EmergeArgv(abs_mountpoint, call.packages, call.reinstall),
                           [env |-> env,
                            chroot_env |-> Update(call.chroot_env, EmergeSettings)]))
    /\ pc' = "returned"
    /\ UNCHANGED << fields, system, exc, origin, faults >>

\* a package installation of the Gentoo strategy in a run that has made its
\* mountpoint
InitEmerge ==
    /\ distro = "distro"
    /\ bootloader_approach = BOOTLOADER__NONE
    /\ command_grub2_install = "/opt/grub/sbin/grub-install"
    /\ with_openstack = FALSE
    /\ root_password = GivenRootPassword
    /\ disk_id = NoDiskId
    /\ abs_scripts_dir_chroot = None
    /\ first_partition_uuid = CanonicalUuid
    /\ abs_mountpoint = TmpMountpoint
    /\ abs_first_partition_device = FirstPartitionDevice
    /\ mounts = << <<>>, UnrelatedMount, TmpMountpoint >>
    /\ mapper_active = TRUE
    /\ mountpoint_exists = TRUE
    /\ device_map_exists = FALSE
    /\ chroot_scripts = NoChrootScripts
    /\ etc_files = NoEtcFiles
    /\ target = ScratchFile
    /\ pc = "install_package_atoms"
    /\ exc = None
    /\ origin = None
    /\ \E chroot_env \in ScriptEnvirons, packages \in PackageLists,
          reinstall \in BOOLEAN :
          log = << E("install_package_atoms",
                     [chroot_env |-> chroot_env, packages |-> packages,
                      reinstall |-> reinstall],
                     "called") >>
    /\ faults = MaxFaults

NextEmerge == install_package_atoms

SpecEmerge == InitEmerge /\ [][NextEmerge]_vars

\* C40: every package installation of the Gentoo strategy runs emerge, and
\* the env it hands to the executor is a mapping, not None and not empty:
\* the chroot environment with DONT_MOUNT_BOOT=1 and MAKEOPTS=-j2 added.
C40_EmergeRunsInExtendedChrootEnvironment ==
    pc = "returned" =>
        /\ log[2].op = "check_call"
        /\ log[2].arg[5] = "emerge"
        /\ log[2].res.env # None
        /\ DOMAIN log[2].res.env # {}
        /\ log[2].res.env = Update(log[1].arg.chroot_env, EmergeSettings)

====
